---------------------------- MODULE Spec2Model ----------------------------
(***************************************************************************)
(* Field-sensitive abstract memory model of kernel-analyzer:               *)
(*   AndersNodeFactory (NodeFactory.h / NodeFactory.cc),                   *)
(*   StructAnalyzer    (StructAnalyzer.h / StructAnalyzer.cc),             *)
(*   the populator and the GEP helpers (PointTo.cc).                       *)
(***************************************************************************)
EXTENDS Integers, Sequences, FiniteSets, TLC

VARIABLES
    nodes,          \* std::vector<AndersNode>, indexed from 0
    valueNodeMap,   \* DenseMap<const Value*, NodeIndex>
    objNodeMap,     \* DenseMap<const Value*, NodeIndex>
    returnMap,      \* DenseMap<const Function*, NodeIndex>
    varargMap,      \* DenseMap<const Function*, NodeIndex>
    gepMap,         \* DenseMap<pair<NodeIndex, unsigned>, NodeIndex>
    gepNodeMap,     \* DenseMap<NodeIndex, pair<NodeIndex, unsigned>>
    status,         \* "ok", "fatal" (assert / llvm_unreachable), "hang" (a call that never returns)
    types,          \* the struct types of the loaded module: id -> [union, opaque, fields]
    layout,         \* the module's DataLayout: struct id -> StructLayout
    structInfoMap,  \* std::map<const StructType*, StructInfo>
    structMap,      \* std::map<string, const StructType*>: the names run() has registered
    maxStructSize,  \* static unsigned StructInfo::maxStructSize
    module,         \* the loaded module: its values, globals and functions
    ptsGraph,       \* PtsGraph: std::map<NodeIndex, AndersPtsSet>
    last,           \* the last call: its name, arguments, result and the node count before it
    hist            \* observations kept across calls (first results, merge log)

vars == <<nodes, valueNodeMap, objNodeMap, returnMap, varargMap, gepMap, gepNodeMap,
          status, types, layout, structInfoMap, structMap, maxStructSize, module,
          ptsGraph, last, hist>>

-----------------------------------------------------------------------------
(* Bounds of the model *)

MaxNodes == 7       \* nodes of the table in Spec
MaxMerges == 3      \* mergeNode calls in SpecMerge
MaxMergeNodes == 6  \* nodes of the table in SpecMerge
MaxNodesAll == 6    \* nodes of the table in SpecAll
MaxMergesAll == 1   \* mergeNode calls in SpecAll
MaxLit == 9         \* the largest literal size argument of an allocator call
MaxRuns == 2        \* runs of populateNodeFactory
MaxFields == 3      \* members of the middle struct type of an enumerated module
MaxInner == 2       \* members of its innermost and outermost struct types
MaxMergesChain == 3 \* mergeNode calls in SpecChain
MaxNodesObj == 8    \* nodes of the table in SpecObj
MaxOffset == 3      \* the largest offset asked of getOffsetObjectNode
MaxNodesConst == 7  \* nodes of the table created by calls in SpecConst
MaxPtsIdx == 2      \* the largest index put into a points-to set
MaxPtsNodes == 2    \* the nodes that have a points-to set in the graph
MaxBeyond == 1      \* bytes past the end of a type that offsetToFieldNum is asked

-----------------------------------------------------------------------------
(* Program constants *)

UniversalPtrIndex == 0
UniversalObjIndex == 1
NullPtrIndex == 2
NullObjectIndex == 3
ConstantIntIndex == 4
\* numeric_limits<unsigned>::max(): no index of the model's node vector (TLC integers are 32-bit signed)
InvalidIndex == -1
NullValue == 0

-----------------------------------------------------------------------------
(* Finite maps *)

Put(m, k, v) == [x \in (DOMAIN m) \cup {k} |-> IF x = k THEN v ELSE m[x]]
EmptyMap == [x \in {} |-> 0]

-----------------------------------------------------------------------------
(* AndersNode and the node vector *)

AndersNode(t, i, v, off, uo, heap) ==
    [type |-> t, idx |-> i, mergeTarget |-> i, value |-> v, offset |-> off,
     isUnionObj |-> uo, isHeapNode |-> heap]

NumNodesOf(nd) == Cardinality(DOMAIN nd)

push_back(nd, n) ==
    [i \in 0..NumNodesOf(nd) |-> IF i = NumNodesOf(nd) THEN n ELSE nd[i]]

\* The factory as one record, so that operations compose.
Factory ==
    [nodes |-> nodes, valueNodeMap |-> valueNodeMap, objNodeMap |-> objNodeMap,
     returnMap |-> returnMap, varargMap |-> varargMap, gepMap |-> gepMap,
     gepNodeMap |-> gepNodeMap, status |-> status]

AndersNodeFactory ==
    LET n0 == [i \in {0} |-> AndersNode("VALUE_NODE", 0, NullValue, 0, FALSE, FALSE)]
        n1 == push_back(n0, AndersNode("OBJ_NODE", 1, NullValue, 0, FALSE, FALSE))
        n2 == push_back(n1, AndersNode("VALUE_NODE", 2, NullValue, 0, FALSE, FALSE))
        n3 == push_back(n2, AndersNode("OBJ_NODE", 3, NullValue, 0, FALSE, FALSE))
        n4 == push_back(n3, AndersNode("OBJ_NODE", 4, NullValue, 0, FALSE, FALSE))
    IN [nodes |-> n4, valueNodeMap |-> EmptyMap, objNodeMap |-> EmptyMap,
        returnMap |-> EmptyMap, varargMap |-> EmptyMap, gepMap |-> EmptyMap,
        gepNodeMap |-> EmptyMap, status |-> "ok"]

\* A call's outcome: the factory after it and the value it returns.
Out(f, r) == [f |-> f, ret |-> r]
Fatal(f) == Out([f EXCEPT !.status = "fatal"], InvalidIndex)

getNumNodes(f) == NumNodesOf(f.nodes)
isObjectNode(f, i) == f.nodes[i].type = "OBJ_NODE"
isUnionObject(f, i) == f.nodes[i].isUnionObj
isHeapNode(f, i) == f.nodes[i].isHeapNode

getUniversalPtrNode == UniversalPtrIndex
getUniversalObjNode == UniversalObjIndex
getNullPtrNode == NullPtrIndex
getNullObjectNode == NullObjectIndex
getConstantIntNode == ConstantIntIndex

-----------------------------------------------------------------------------
(* Factory methods *)

\* the duplicate check left out: the mapping is replaced and the new index returned
createValueNode_replace(f, val) ==
    LET nextIdx == getNumNodes(f)
        f1 == [f EXCEPT !.nodes = push_back(f.nodes,
                    AndersNode("VALUE_NODE", nextIdx, val, 0, FALSE, FALSE))]
    IN IF val # NullValue
       THEN Out([f1 EXCEPT !.valueNodeMap = Put(f.valueNodeMap, val, nextIdx)], nextIdx)
       ELSE Out(f1, nextIdx)

createValueNode(f, val) ==
    LET nextIdx == getNumNodes(f)
        f1 == [f EXCEPT !.nodes = push_back(f.nodes,
                    AndersNode("VALUE_NODE", nextIdx, val, 0, FALSE, FALSE))]
    IN IF val # NullValue
       THEN IF val \in DOMAIN f.valueNodeMap
            THEN Fatal(f1)
            ELSE Out([f1 EXCEPT !.valueNodeMap = Put(f.valueNodeMap, val, nextIdx)], nextIdx)
       ELSE Out(f1, nextIdx)

createObjectNode(f, val, uo, heap) ==
    LET nextIdx == getNumNodes(f)
        f1 == [f EXCEPT !.nodes = push_back(f.nodes,
                    AndersNode("OBJ_NODE", nextIdx, val, 0, uo, heap))]
    IN IF val # NullValue
       THEN IF val \in DOMAIN f.objNodeMap
            THEN Out(f1, f.objNodeMap[val])
            ELSE Out([f1 EXCEPT !.objNodeMap = Put(f.objNodeMap, val, nextIdx)], nextIdx)
       ELSE Out(f1, nextIdx)

createObjectNodeAt(f, base, offset, uo, heap) ==
    LET nextIdx == getNumNodes(f)
    IN IF offset = 0 \/ nextIdx # base + offset
       THEN Fatal(f)
       ELSE Out([f EXCEPT !.nodes = push_back(f.nodes,
                    AndersNode("OBJ_NODE", nextIdx, NullValue, offset, uo, heap))], nextIdx)

createReturnNode(f, fn) ==
    LET nextIdx == getNumNodes(f)
        f1 == [f EXCEPT !.nodes = push_back(f.nodes,
                    AndersNode("VALUE_NODE", nextIdx, fn, 0, FALSE, FALSE))]
    IN IF fn \in DOMAIN f.returnMap
       THEN Fatal(f1)
       ELSE Out([f1 EXCEPT !.returnMap = Put(f.returnMap, fn, nextIdx)], nextIdx)

createVarargNode(f, fn) ==
    LET nextIdx == getNumNodes(f)
        f1 == [f EXCEPT !.nodes = push_back(f.nodes,
                    AndersNode("OBJ_NODE", nextIdx, fn, 0, FALSE, FALSE))]
    IN IF fn \in DOMAIN f.varargMap
       THEN Fatal(f1)
       ELSE Out([f1 EXCEPT !.varargMap = Put(f.varargMap, fn, nextIdx)], nextIdx)

-----------------------------------------------------------------------------
(* Object extent *)

\* the scan with the offset comparison left out
RECURSIVE ObjectScan_anyOffset(_, _, _)
ObjectScan_anyOffset(f, i, offset) ==
    IF (i + 1) < getNumNodes(f)
       /\ f.nodes[i + 1].type = "OBJ_NODE"
    THEN ObjectScan_anyOffset(f, i + 1, offset + 1)
    ELSE offset + 1

RECURSIVE ObjectScan(_, _, _)
ObjectScan(f, i, offset) ==
    IF (i + 1) < getNumNodes(f)
       /\ f.nodes[i + 1].type = "OBJ_NODE"
       /\ f.nodes[i + 1].offset = offset + 1
    THEN ObjectScan(f, i + 1, offset + 1)
    ELSE offset + 1

getObjectSize(f, i) == ObjectScan(f, i, f.nodes[i].offset)
getObjectOffset(f, i) == f.nodes[i].offset
getObjectBound(f, i) == i - getObjectOffset(f, i) + getObjectSize(f, i)

-----------------------------------------------------------------------------
(* Types and the target data layout (llvm::Type, llvm::DataLayout)          *)

I8 == [k |-> "i8"]
I32 == [k |-> "i32"]
I64 == [k |-> "i64"]
PTR == [k |-> "ptr"]
Arr(e, n) == [k |-> "array", elem |-> e, n |-> n]
St(id) == [k |-> "struct", id |-> id]

isStructTy(t) == t.k = "struct"
isArrayTy(t) == t.k = "array"
isPointerTy(t) == t.k = "ptr"

\* !st->isLiteral() && st->getName().startswith("union")
isUnionName(id) == types[id].union
isOpaque(id) == types[id].opaque

RECURSIVE stripArray(_)
stripArray(t) == IF isArrayTy(t) THEN stripArray(t.elem) ELSE t

RECURSIVE arrayCount(_)
arrayCount(t) == IF isArrayTy(t) THEN t.n * arrayCount(t.elem) ELSE 1

Max(a, b) == IF a >= b THEN a ELSE b
alignTo(x, a) == ((x + a - 1) \div a) * a

\* StructLayout of every struct type, as DataLayout computes it: members at
\* their ABI alignment, the size rounded up to the struct's alignment.
RECURSIVE AlignIn(_, _)
RECURSIVE AlignOfFields(_, _, _)
AlignIn(tt, t) ==
    CASE t.k = "i8" -> 1
      [] t.k = "i32" -> 4
      [] t.k = "i64" -> 8
      [] t.k = "ptr" -> 8
      [] t.k = "array" -> AlignIn(tt, t.elem)
      [] t.k = "struct" -> AlignOfFields(tt, tt[t.id].fields, 1)
AlignOfFields(tt, fs, a) ==
    IF fs = <<>> THEN a
    ELSE AlignOfFields(tt, Tail(fs), Max(a, AlignIn(tt, Head(fs))))

RECURSIVE SizeIn(_, _)
RECURSIVE LayoutFields(_, _, _, _)
StructLayoutIn(tt, id) ==
    LET l == LayoutFields(tt, tt[id].fields, 0, <<>>)
        a == AlignIn(tt, St(id))
    IN [offsets |-> l.offsets, size |-> alignTo(l.size, a), align |-> a]
SizeIn(tt, t) ==
    CASE t.k = "i8" -> 1
      [] t.k = "i32" -> 4
      [] t.k = "i64" -> 8
      [] t.k = "ptr" -> 8
      [] t.k = "array" -> t.n * SizeIn(tt, t.elem)
      [] t.k = "struct" -> StructLayoutIn(tt, t.id).size
LayoutFields(tt, fs, cur, acc) ==
    IF fs = <<>> THEN [offsets |-> acc, size |-> cur]
    ELSE LET o == alignTo(cur, AlignIn(tt, Head(fs)))
         IN LayoutFields(tt, Tail(fs), o + SizeIn(tt, Head(fs)), Append(acc, o))

DataLayoutOf(tt) == [id \in DOMAIN tt |-> StructLayoutIn(tt, id)]

\* the module's DataLayout, resolved once and cached
getStructLayout(id) == layout[id]

RECURSIVE getTypeAllocSize(_)
getTypeAllocSize(t) ==
    CASE t.k = "i8" -> 1
      [] t.k = "i32" -> 4
      [] t.k = "i64" -> 8
      [] t.k = "ptr" -> 8
      [] t.k = "array" -> t.n * getTypeAllocSize(t.elem)
      [] t.k = "struct" -> getStructLayout(t.id).size

\* member index i counts from 0, as in the source
getElementOffset(id, i) == getStructLayout(id).offsets[i + 1]

\* the last member whose offset is <= off (std::upper_bound, then one back)
getElementContainingOffset(id, off) ==
    LET offs == getStructLayout(id).offsets
        S == {i \in 1..Len(offs) : offs[i] <= off}
    IN (CHOOSE i \in S : \A j \in S : j <= i) - 1

-----------------------------------------------------------------------------
(* StructInfo (StructAnalyzer.h).  The vectors are sequences; at(v, i) is   *)
(* the source's v[i] / v.at(i), counted from 0.                             *)

at(v, i) == v[i + 1]
back(v) == v[Len(v)]

\* value-initialised by structInfoMap[st]
NewStructInfo ==
    [arrayFlags |-> <<>>, pointerFlags |-> <<>>, unionFlags |-> <<>>,
     fieldSize |-> <<>>, offsetMap |-> <<>>, fieldOffset |-> <<>>,
     fieldRealSize |-> <<>>, stType |-> 0, allocSize |-> 0,
     containers |-> {}, finalized |-> FALSE]

addOffsetMap(info, o) == [info EXCEPT !.offsetMap = Append(@, o)]
addField(info, newFieldSize, isArray, isPointer, isUnion) ==
    [info EXCEPT !.fieldSize = Append(@, newFieldSize),
                 !.arrayFlags = Append(@, isArray),
                 !.pointerFlags = Append(@, isPointer),
                 !.unionFlags = Append(@, isUnion)]
addFieldOffset(info, o) == [info EXCEPT !.fieldOffset = Append(@, o)]
addRealSize(info, sz) == [info EXCEPT !.fieldRealSize = Append(@, sz)]

getExpandedSize(info) == Len(info.arrayFlags)
getSize(info) == Len(info.offsetMap)
isEmpty(info) == at(info.fieldSize, 0) = 0
isFieldUnion(info, field) == at(info.unionFlags, field)
isFieldArray(info, field) == at(info.arrayFlags, field)
isFieldPointer(info, field) == at(info.pointerFlags, field)
getOffset(info, off) == at(info.offsetMap, off)
getFieldOffset(info, field) == at(info.fieldOffset, field)
getFieldRealSize(info, field) == at(info.fieldRealSize, field)
getAllocSize(info) == info.allocSize

appendFields_short(info, other) ==
    [info EXCEPT !.fieldSize = IF ~isEmpty(other)
                               THEN @ \o SubSeq(other.fieldSize, 1, Len(other.fieldSize) - 1)
                               ELSE @,
                 !.arrayFlags = @ \o SubSeq(other.arrayFlags, 1, Len(other.arrayFlags) - 1),
                 !.pointerFlags = @ \o SubSeq(other.pointerFlags, 1, Len(other.arrayFlags) - 1),
                 !.unionFlags = @ \o SubSeq(other.unionFlags, 1, Len(other.arrayFlags) - 1),
                 !.fieldRealSize = @ \o other.fieldRealSize]

appendFields(info, other) ==
    [info EXCEPT !.fieldSize = IF ~isEmpty(other) THEN @ \o other.fieldSize ELSE @,
                 !.arrayFlags = @ \o other.arrayFlags,
                 !.pointerFlags = @ \o other.pointerFlags,
                 !.unionFlags = @ \o other.unionFlags,
                 !.fieldRealSize = @ \o other.fieldRealSize]

RECURSIVE ShiftedNonZero(_, _)
ShiftedNonZero(offs, base) ==
    IF offs = <<>> THEN <<>>
    ELSE IF Head(offs) = 0 THEN ShiftedNonZero(Tail(offs), base)
    ELSE <<Head(offs) + base>> \o ShiftedNonZero(Tail(offs), base)

appendFieldOffset(info, other) ==
    [info EXCEPT !.fieldOffset = @ \o ShiftedNonZero(other.fieldOffset, back(info.fieldOffset))]

finalize(info, st) ==
    LET numField == Len(info.fieldSize)
        fs == IF numField = 0 THEN <<0>> ELSE info.fieldSize
    IN [info EXCEPT !.fieldSize = [fs EXCEPT ![1] = numField],
                    !.allocSize = getTypeAllocSize(St(st)),
                    !.finalized = TRUE]

updateMaxStruct(cur, structSize) == IF structSize > cur THEN structSize ELSE cur

-----------------------------------------------------------------------------
(* StructAnalyzer (StructAnalyzer.cc).  The analyzer is the record          *)
(* [infos, maxSize, ok]; ok = FALSE after a failed assertion.               *)

Analyzer == [infos |-> structInfoMap, maxSize |-> maxStructSize, ok |-> status = "ok"]

\* the struct-typed members of a type, arrays stripped, in declaration order
RECURSIVE StructElements(_)
StructElements(fs) ==
    IF fs = <<>> THEN <<>>
    ELSE LET t == stripArray(Head(fs))
         IN (IF isStructTy(t) THEN <<t.id>> ELSE <<>>) \o StructElements(Tail(fs))

\* the same without the walk over the containee's own struct members
addContainerSubs_none(sa, container, ct, offset, subs) == sa

\* addContainer: containee.containers gets (container, offset); then, for every
\* struct member of the containee, every pair (containee, o) it holds is
\* re-registered as (container, o + offset).  The pairs the recursion inserts name
\* `container`, never the containee, so iterating the set as it was is the same.
RECURSIVE addContainer(_, _, _, _)
RECURSIVE addContainerSubs(_, _, _, _, _)
RECURSIVE addContainerItems(_, _, _, _, _)
addContainer(sa, container, containee, offset) ==
    LET sa1 == [sa EXCEPT !.infos[containee].containers = @ \cup {<<container, offset>>}]
        ct == sa.infos[containee].stType
    IN addContainerSubs(sa1, container, ct, offset, StructElements(types[ct].fields))
addContainerSubs(sa, container, ct, offset, subs) ==
    IF subs = <<>> \/ ~sa.ok THEN sa
    ELSE IF Head(subs) \notin DOMAIN sa.infos
         THEN [sa EXCEPT !.ok = FALSE]
         ELSE LET items == {it \in sa.infos[Head(subs)].containers : it[1] = ct}
                  sa1 == addContainerItems(sa, container, Head(subs), offset, items)
              IN addContainerSubs(sa1, container, ct, offset, Tail(subs))
addContainerItems(sa, container, sub, offset, items) ==
    IF items = {} \/ ~sa.ok THEN sa
    ELSE LET it == CHOOSE x \in items : TRUE
         IN addContainerItems(addContainer(sa, container, sub, it[2] + offset),
                              container, sub, offset, items \ {it})

RECURSIVE addContainerTimes(_, _, _, _, _, _)
addContainerTimes(sa, container, containee, offset, stride, n) ==
    IF n = 0 \/ ~sa.ok THEN sa
    ELSE addContainerTimes(addContainer(sa, container, containee, offset),
                           container, containee, offset + stride, stride, n - 1)

RECURSIVE addStructInfo(_, _)
RECURSIVE computeStructInfo(_, _)
RECURSIVE addUnionMembers(_, _, _)
RECURSIVE addFields(_, _, _, _, _, _)

computeStructInfo(sa, st) ==
    IF st \in DOMAIN sa.infos THEN sa ELSE addStructInfo(sa, st)

\* the union branch: every struct member is resolved on its own and gets the
\* union as a container at each array position
addUnionMembers(sa, st, fs) ==
    IF fs = <<>> \/ ~sa.ok THEN sa
    ELSE LET subType == stripArray(Head(fs))
             arraySize == IF arrayCount(Head(fs)) = 0 THEN 1 ELSE arrayCount(Head(fs))
         IN IF isStructTy(subType)
            THEN LET sa1 == computeStructInfo(sa, subType.id)
                     sa2 == IF sa1.ok /\ ~sa1.infos[subType.id].finalized
                            THEN [sa1 EXCEPT !.ok = FALSE] ELSE sa1
                     sa3 == addContainerTimes(sa2, st, subType.id, 0,
                                              getTypeAllocSize(subType), arraySize)
                 IN addUnionMembers(sa3, st, Tail(fs))
            ELSE addUnionMembers(sa, st, Tail(fs))

\* the struct branch: r = [sa, info, numField] after the members from fieldIndex on
addFields(sa, st, fs, fieldIndex, info, numField) ==
    IF fs = <<>> \/ ~sa.ok THEN [sa |-> sa, info |-> info, numField |-> numField]
    ELSE
    LET fieldTy == Head(fs)
        currentOffset == getElementOffset(st, fieldIndex)
        i1 == addFieldOffset(info, currentOffset)
        isArray == isArrayTy(fieldTy)
        i2 == IF isArray
              THEN addRealSize(i1, getTypeAllocSize(fieldTy.elem) * fieldTy.n)
              ELSE i1
        arraySize == IF arrayCount(fieldTy) = 0 THEN 1 ELSE arrayCount(fieldTy)
        subType == stripArray(fieldTy)
        i3 == addOffsetMap(i2, numField)
    IN IF isStructTy(subType)
       THEN IF isOpaque(subType.id)
            THEN [sa |-> [sa EXCEPT !.ok = FALSE], info |-> i3, numField |-> numField]
            ELSE
            LET sa1 == computeStructInfo(sa, subType.id)
                sa2 == IF sa1.ok /\ ~sa1.infos[subType.id].finalized
                       THEN [sa1 EXCEPT !.ok = FALSE] ELSE sa1
                sa3 == addContainerTimes(sa2, st, subType.id, currentOffset,
                                         getTypeAllocSize(subType), arraySize)
                subInfo == sa3.infos[subType.id]
                i4 == appendFieldOffset(appendFields(i3, subInfo), subInfo)
            IN IF ~sa3.ok
               THEN [sa |-> sa3, info |-> i3, numField |-> numField]
               ELSE addFields(sa3, st, Tail(fs), fieldIndex + 1, i4,
                              numField + getExpandedSize(subInfo))
       ELSE LET i4 == addField(i3, 1, isArray, isPointerTy(subType), FALSE)
                i5 == IF ~isArray THEN addRealSize(i4, getTypeAllocSize(subType)) ELSE i4
            IN addFields(sa, st, Tail(fs), fieldIndex + 1, i5, numField + 1)

addStructInfo(sa, st) ==
    LET had == st \in DOMAIN sa.infos
        stInfo == IF had THEN sa.infos[st] ELSE NewStructInfo
        sa0 == [sa EXCEPT !.infos = Put(sa.infos, st, stInfo)]
    IN IF stInfo.finalized THEN sa0
       ELSE
       LET r == IF isUnionName(st)
                THEN [sa |-> addUnionMembers(sa0, st, types[st].fields),
                      info |-> addOffsetMap(addField(addFieldOffset(stInfo, 0),
                                                     1, FALSE, FALSE, TRUE), 0),
                      numField |-> 0]
                ELSE addFields(sa0, st, types[st].fields, 0, stInfo, 0)
           sizesAgree == /\ Len(r.info.fieldSize) = Len(r.info.arrayFlags)
                         /\ Len(r.info.pointerFlags) = Len(r.info.arrayFlags)
                         /\ Len(r.info.unionFlags) = Len(r.info.arrayFlags)
           \* the recursion touched only other entries' containers; st's own
           \* containers are those the map holds now
           done == [finalize([r.info EXCEPT !.stType = st], st)
                      EXCEPT !.containers = r.sa.infos[st].containers]
       IN IF ~r.sa.ok \/ ~sizesAgree
          THEN [r.sa EXCEPT !.ok = FALSE]
          ELSE [r.sa EXCEPT !.infos[st] = done,
                            !.maxSize = updateMaxStruct(@, r.numField)]

\* getStructInfo: NULL (here: absent) if the type has no entry
hasStructInfo(infos, st) == st \in DOMAIN infos

-----------------------------------------------------------------------------
(* offsetToFieldNum (PointTo.cc): the expanded field a byte offset into the *)
(* pointee falls in.  Result: [ret, fatal, warn].                           *)

\* ret += stInfo->getOffset(idx)
addExpandedIndex_idx(ret, stInfo, idx) == ret + idx
addExpandedIndex(ret, stInfo, idx) == ret + getOffset(stInfo, idx)

\* inside a union: offset -= allocSize; if (offset <= 0) break
leavesUnion_never(offset) == FALSE
leavesUnion(offset) == offset <= 0

\* offset %= getTypeAllocSize(trueElemType); if (offset != 0) { warning; break; }
midField_never(offset, size) == FALSE
midField(offset, size) == offset % size # 0

\* iter: the number of iterations of the outer while loop that were entered
RECURSIVE offsetToFieldNumLoop(_, _, _, _)
offsetToFieldNumLoop(infos, trueElemType, offset, ret) ==
    IF ~(offset > 0) THEN [ret |-> ret, fatal |-> FALSE, warn |-> FALSE, iter |-> 0]
    ELSE
    LET ty == stripArray(trueElemType)
    IN IF isStructTy(ty)
       THEN IF ~hasStructInfo(infos, ty.id)
            THEN [ret |-> ret, fatal |-> TRUE, warn |-> FALSE, iter |-> 1]
            ELSE
            LET stInfo == infos[ty.id]
                stType == stInfo.stType
                allocSize == getTypeAllocSize(St(stType))
                off1 == offset % allocSize
                idx == getElementContainingOffset(stType, off1)
                off2 == IF isUnionName(stType) THEN off1 - allocSize ELSE off1
                off3 == IF isUnionName(stType) THEN off2 - allocSize
                        ELSE off2 - getElementOffset(stType, idx)
                next == offsetToFieldNumLoop(infos, at(types[stType].fields, idx), off3,
                                             addExpandedIndex(ret, stInfo, idx))
            IN IF allocSize = 0
               THEN [ret |-> 0, fatal |-> FALSE, warn |-> FALSE, iter |-> 1]
               ELSE IF isUnionName(stType) /\ leavesUnion(off2)
               THEN [ret |-> ret, fatal |-> FALSE, warn |-> FALSE, iter |-> 1]
               ELSE IF idx >= getSize(stInfo)
               THEN [ret |-> ret, fatal |-> TRUE, warn |-> FALSE, iter |-> 1]
               ELSE [next EXCEPT !.iter = @ + 1]
       ELSE IF midField(offset, getTypeAllocSize(ty))
            THEN [ret |-> ret, fatal |-> FALSE, warn |-> TRUE, iter |-> 1]
            ELSE [ret |-> ret, fatal |-> FALSE, warn |-> FALSE, iter |-> 1]

offsetToFieldNum(infos, pointee, offset) ==
    IF offset < 0 THEN [ret |-> 0, fatal |-> FALSE, warn |-> FALSE, iter |-> 0]
    ELSE IF isStructTy(pointee) /\ (isUnionName(pointee.id) \/ isOpaque(pointee.id))
    THEN [ret |-> 0, fatal |-> FALSE, warn |-> FALSE, iter |-> 0]
    ELSE offsetToFieldNumLoop(infos, pointee, offset, 0)

-----------------------------------------------------------------------------
(* Merging (NodeFactory.cc)                                                 *)

mergeNode_moved(f, n0, n1) ==
    IF ~(n0 < getNumNodes(f) /\ n1 < getNumNodes(f))
    THEN Fatal(f)
    ELSE Out([f EXCEPT !.nodes[n1].mergeTarget = n0, !.nodes[n1].offset = n1 - n0], n0)

mergeNode(f, n0, n1) ==
    IF ~(n0 < getNumNodes(f) /\ n1 < getNumNodes(f))
    THEN Fatal(f)
    ELSE Out([f EXCEPT !.nodes[n1].mergeTarget = n0], n0)

\* while (ret != nodes[ret].mergeTarget) ret = nodes[ret].mergeTarget;
\* a chain of more links than there are nodes has no end: InvalidIndex
RECURSIVE chainRoot(_, _, _)
chainRoot(nd, ret, fuel) ==
    IF ret = nd[ret].mergeTarget THEN ret
    ELSE IF fuel = 0 THEN InvalidIndex
    ELSE chainRoot(nd, nd[ret].mergeTarget, fuel - 1)

\* the nodes the loop pushes on `path`: those it leaves behind on the way
RECURSIVE chainPath(_, _)
chainPath(nd, ret) ==
    IF ret = nd[ret].mergeTarget THEN {}
    ELSE {ret} \cup chainPath(nd, nd[ret].mergeTarget)

\* for (auto idx: path) nodes[idx].mergeTarget = ret;
compress_copy(nd, path, ret) ==
    [i \in DOMAIN nd |-> IF i \in path THEN nd[ret] ELSE nd[i]]
compress(nd, path, ret) ==
    [i \in DOMAIN nd |-> IF i \in path THEN [nd[i] EXCEPT !.mergeTarget = ret] ELSE nd[i]]

\* the walk of the mutating overload with the repointing loop left out
getMergeTarget_lazy(f, n) ==
    IF ~(n < getNumNodes(f)) THEN Fatal(f)
    ELSE LET ret0 == f.nodes[n].mergeTarget
             ret == chainRoot(f.nodes, ret0, getNumNodes(f))
         IN IF ret0 = n THEN Out(f, n)
            ELSE IF ret = InvalidIndex
            THEN Out([f EXCEPT !.status = "hang"], InvalidIndex)
            ELSE Out(f, ret)

\* the mutating overload
getMergeTarget(f, n) ==
    IF ~(n < getNumNodes(f)) THEN Fatal(f)
    ELSE LET ret0 == f.nodes[n].mergeTarget
             ret == chainRoot(f.nodes, ret0, getNumNodes(f))
         IN IF ret0 = n THEN Out(f, n)
            ELSE IF ret = InvalidIndex
            THEN Out([f EXCEPT !.status = "hang"], InvalidIndex)
            ELSE Out([f EXCEPT !.nodes = compress(f.nodes, {n} \cup chainPath(f.nodes, ret0), ret)],
                     ret)

\* the const overload
getMergeTargetConst(nd, n) == chainRoot(nd, nd[n].mergeTarget, NumNodesOf(nd))

-----------------------------------------------------------------------------
(* Values (llvm::Value) of the module: id -> record.  k is the class of the *)
(* value, ptr whether its type is a pointer type, ty the pointee type (for  *)
(* a GEP: the source element type), op the pointer operand, idx the index   *)
(* operands, sym the positions in idx whose operand is not a ConstantInt,    *)
(* decl / def: a declaration and the definition gobjMap holds.              *)

Value(k, ptr, ty, op, idx) ==
    [k |-> k, ptr |-> ptr, ty |-> ty, op |-> op, idx |-> idx, sym |-> {},
     decl |-> FALSE, def |-> 0]

GlobalVariable(ty) == Value("global", TRUE, ty, 0, <<>>)
Function == Value("function", TRUE, I8, 0, <<>>)
ConstGEP(srcTy, op, idx) == Value("gep", TRUE, srcTy, op, idx)

Values == module.values

isConstant(v) ==
    Values[v].k \in {"global", "function", "null", "undef", "gep", "bitcast",
                     "inttoptr", "ptrtoint", "blockaddress", "int", "cexpr"}
isGlobalValue(v) == Values[v].k \in {"global", "function"}
isConstantExpr(v) == Values[v].k \in {"gep", "bitcast", "inttoptr", "ptrtoint", "cexpr"}

\* Value::stripPointerCasts: bitcasts and all-zero GEPs are looked through
RECURSIVE stripPointerCasts(_)
stripPointerCasts(v) ==
    IF Values[v].k = "bitcast" THEN stripPointerCasts(Values[v].op)
    ELSE IF Values[v].k = "gep" /\ Values[v].sym = {}
            /\ \A i \in DOMAIN Values[v].idx : Values[v].idx[i] = 0
    THEN stripPointerCasts(Values[v].op)
    ELSE v

\* llvm::GetUnderlyingObject with MaxLookup = 0: through every GEP and bitcast
RECURSIVE GetUnderlyingObject(_)
GetUnderlyingObject(v) ==
    IF Values[v].k \in {"gep", "bitcast"} THEN GetUnderlyingObject(Values[v].op) ELSE v

\* DataLayout::getIndexedOffsetInType
RECURSIVE indexedOffsetWalk(_, _)
indexedOffsetWalk(ty, idx) ==
    IF idx = <<>> THEN 0
    ELSE IF isStructTy(ty)
    THEN getElementOffset(ty.id, Head(idx))
         + indexedOffsetWalk(at(types[ty.id].fields, Head(idx)), Tail(idx))
    ELSE Head(idx) * getTypeAllocSize(ty.elem) + indexedOffsetWalk(ty.elem, Tail(idx))

getIndexedOffsetInType(ty, idx) ==
    IF idx = <<>> THEN 0
    ELSE Head(idx) * getTypeAllocSize(ty) + indexedOffsetWalk(ty, Tail(idx))

\* indexOps after the loop: an operand that is not a ConstantInt is taken as 0
indexOps(v) == [i \in DOMAIN Values[v].idx |-> IF i \in Values[v].sym THEN 0 ELSE Values[v].idx[i]]

\* the offset of the GEP's own indices only
getGEPOffset_own(v) == getIndexedOffsetInType(Values[v].ty, indexOps(v))

RECURSIVE getGEPOffset(_)
getGEPOffset(v) ==
    LET baseValue == stripPointerCasts(Values[v].op)
        nested == IF Values[baseValue].k = "gep" THEN getGEPOffset(baseValue) ELSE 0
    IN nested + getIndexedOffsetInType(Values[v].ty, indexOps(v))

\* [ret, fatal, warn], as offsetToFieldNum
constGEPtoFieldNum(v) ==
    LET obj == GetUnderlyingObject(v)
    IN IF ~Values[obj].ptr THEN [ret |-> 0, fatal |-> TRUE, warn |-> FALSE, iter |-> 0]
       ELSE offsetToFieldNum(structInfoMap, Values[obj].ty, getGEPOffset(v))

-----------------------------------------------------------------------------
(* Lookups (NodeFactory.cc)                                                 *)

Lookup(m, k) == IF k \in DOMAIN m THEN m[k] ELSE InvalidIndex

RECURSIVE getValueNodeFor(_, _)
RECURSIVE getValueNodeForConstant(_, _)

getValueNodeFor(f, val) ==
    IF isConstant(val) /\ ~isGlobalValue(val)
    THEN getValueNodeForConstant(f, val)
    ELSE IF isGlobalValue(val) /\ Values[val].decl
    THEN IF Values[val].def # 0
         THEN Out(f, Lookup(f.valueNodeMap, Values[val].def))
         ELSE Out(f, getUniversalPtrNode)
    ELSE Out(f, Lookup(f.valueNodeMap, val))

getValueNodeForConstant(f, c) ==
    IF ~Values[c].ptr THEN Out(f, getConstantIntNode)
    ELSE IF Values[c].k \in {"null", "undef"} THEN Out(f, getNullPtrNode)
    ELSE IF isGlobalValue(c) THEN getValueNodeFor(f, c)
    ELSE IF isConstantExpr(c)
    THEN CASE Values[c].k = "gep" ->
                LET b == getValueNodeForConstant(f, Values[c].op)
                    baseNode == b.ret
                    fieldNum == constGEPtoFieldNum(c)
                    mapKey == <<baseNode, fieldNum.ret>>
                IN IF b.f.status # "ok" THEN b
                   ELSE IF baseNode = InvalidIndex THEN Fatal(b.f)
                   ELSE IF baseNode = getNullObjectNode THEN Out(b.f, getNullPtrNode)
                   ELSE IF baseNode = getUniversalObjNode THEN Out(b.f, getUniversalPtrNode)
                   ELSE IF fieldNum.fatal THEN Fatal(b.f)
                   ELSE IF fieldNum.ret = 0 THEN Out(b.f, baseNode)
                   ELSE IF mapKey \notin DOMAIN b.f.gepMap
                   THEN LET g == createValueNode(b.f, c)
                        IN IF g.f.status # "ok" THEN g
                           ELSE Out([g.f EXCEPT !.gepMap = Put(@, mapKey, g.ret),
                                                !.gepNodeMap = Put(@, g.ret, mapKey)], g.ret)
                   ELSE Out(b.f, b.f.gepMap[mapKey])
           [] Values[c].k = "bitcast" ->
                LET s == getValueNodeFor(f, Values[c].op)
                IN IF s.f.status # "ok" THEN s
                   ELSE IF s.ret = getNullObjectNode THEN Out(s.f, getNullPtrNode)
                   ELSE IF s.ret = getUniversalObjNode THEN Out(s.f, getUniversalPtrNode)
                   ELSE s
           [] Values[c].k \in {"inttoptr", "ptrtoint"} -> Out(f, getNullPtrNode)
           [] OTHER -> Fatal(f)
    ELSE IF Values[c].k = "blockaddress" THEN Out(f, getNullPtrNode)
    ELSE Fatal(f)

\* the (base node, field number) pair a constant GEP is cached under; <<>> if
\* the resolution ends before the cache is consulted
gepMapKey(f, c) ==
    LET b == getValueNodeForConstant(f, Values[c].op)
        fieldNum == constGEPtoFieldNum(c)
    IN IF \/ b.f.status # "ok"
          \/ b.ret \in {InvalidIndex, getNullObjectNode, getUniversalObjNode}
          \/ fieldNum.fatal
          \/ fieldNum.ret = 0
       THEN <<>>
       ELSE <<b.ret, fieldNum.ret>>

\* nodes.at(i) throws for an index outside the table
inTable(f, i) == 0 <= i /\ i < getNumNodes(f)

\* dumpNode(idx) ends the process: nodes.at fails, or the node is a field
\* (no value, offset > 0) of a base that has no value either
dumpNodeFails(f, idx) ==
    \/ ~inTable(f, idx)
    \/ /\ f.nodes[idx].value = NullValue
       /\ f.nodes[idx].offset # 0
       /\ \/ ~inTable(f, idx - f.nodes[idx].offset)
          \/ f.nodes[idx - f.nodes[idx].offset].value = NullValue

\* the offset comparison left out
getOffsetObjectNode_unchecked(f, n, offset) ==
    IF ~inTable(f, n) THEN Fatal(f)
    ELSE IF ~isObjectNode(f, n) /\ \E i \in n..(n + offset) : dumpNodeFails(f, i)
    THEN Fatal(f)
    ELSE IF isUnionObject(f, n) THEN Out(f, n)
    ELSE IF ~inTable(f, n + offset) THEN Fatal(f)
    ELSE IF ~isObjectNode(f, n + offset) THEN Fatal(f)
    ELSE Out(f, n + offset)

\* a node that is not an object is dumped first, with the nodes up to n + offset
getOffsetObjectNode(f, n, offset) ==
    IF ~inTable(f, n) THEN Fatal(f)
    ELSE IF ~isObjectNode(f, n) /\ \E i \in n..(n + offset) : dumpNodeFails(f, i)
    THEN Fatal(f)
    ELSE IF isUnionObject(f, n) THEN Out(f, n)
    ELSE IF ~inTable(f, n + offset) THEN Fatal(f)
    ELSE IF ~isObjectNode(f, n + offset) THEN Fatal(f)
    ELSE IF f.nodes[n].offset + offset # f.nodes[n + offset].offset THEN Fatal(f)
    ELSE Out(f, n + offset)

RECURSIVE getObjectNodeFor(_, _)
RECURSIVE getObjectNodeForConstant(_, _)

getObjectNodeFor(f, val) ==
    IF isConstant(val) /\ ~isGlobalValue(val)
    THEN getObjectNodeForConstant(f, val)
    ELSE IF isGlobalValue(val) /\ Values[val].decl /\ Values[val].def # 0
    THEN Out(f, Lookup(f.objNodeMap, Values[val].def))
    ELSE Out(f, Lookup(f.objNodeMap, val))

getObjectNodeForConstant(f, c) ==
    IF ~Values[c].ptr THEN Out(f, getUniversalPtrNode)
    ELSE IF Values[c].k = "null" THEN Out(f, getNullObjectNode)
    ELSE IF isGlobalValue(c) THEN getObjectNodeFor(f, c)
    ELSE IF isConstantExpr(c)
    THEN CASE Values[c].k = "gep" ->
                LET b == getObjectNodeForConstant(f, Values[c].op)
                    fieldNum == constGEPtoFieldNum(c)
                IN IF b.f.status # "ok" THEN b
                   ELSE IF b.ret = InvalidIndex THEN Fatal(f)
                   ELSE IF b.ret \in {getNullObjectNode, getUniversalObjNode} THEN b
                   ELSE IF fieldNum.fatal THEN Fatal(f)
                   ELSE getOffsetObjectNode(f, b.ret, fieldNum.ret)
           [] Values[c].k \in {"inttoptr", "ptrtoint"} -> Out(f, getNullObjectNode)
           [] Values[c].k = "bitcast" -> getObjectNodeForConstant(f, Values[c].op)
           [] OTHER -> Fatal(f)
    ELSE IF Values[c].k = "blockaddress" THEN Out(f, getNullObjectNode)
    ELSE Fatal(f)

clearGepMap(f) == [f EXCEPT !.gepMap = EmptyMap]

-----------------------------------------------------------------------------
(* The calls and what they leave in `last`                                  *)

Call(op, x, y, ret, flag) ==
    [op |-> op, x |-> x, y |-> y, ret |-> ret, n0 |-> NumNodesOf(nodes), flag |-> flag]

NoCall == [op |-> "none", x |-> 0, y |-> 0, ret |-> 0, n0 |-> 0, flag |-> FALSE]

\* merges: the last two mergeNode calls; nmerge, npop: calls counted;
\* first: the node a (base node, field number) pair resolved to the first time
NoHist == [merges |-> <<>>, nmerge |-> 0, first |-> EmptyMap, npop |-> 0]

SetFactory(f) ==
    /\ nodes' = f.nodes
    /\ valueNodeMap' = f.valueNodeMap
    /\ objNodeMap' = f.objNodeMap
    /\ returnMap' = f.returnMap
    /\ varargMap' = f.varargMap
    /\ gepMap' = f.gepMap
    /\ gepNodeMap' = f.gepNodeMap
    /\ status' = f.status

InitFactory ==
    /\ nodes = AndersNodeFactory.nodes
    /\ valueNodeMap = AndersNodeFactory.valueNodeMap
    /\ objNodeMap = AndersNodeFactory.objNodeMap
    /\ returnMap = AndersNodeFactory.returnMap
    /\ varargMap = AndersNodeFactory.varargMap
    /\ gepMap = AndersNodeFactory.gepMap
    /\ gepNodeMap = AndersNodeFactory.gepNodeMap
    /\ status = AndersNodeFactory.status

factoryVars == <<nodes, valueNodeMap, objNodeMap, returnMap, varargMap, gepMap, gepNodeMap>>
analyzerVars == <<structInfoMap, structMap, maxStructSize>>
moduleVars == <<types, layout, module>>

\* a module with no values, for the analyses that look at types only
NoModule == [values |-> <<>>, globals |-> <<>>, functions |-> <<>>]

-----------------------------------------------------------------------------
(* Struct analysis of one module: StructAnalyzer::run visits the module's   *)
(* struct types in the order TypeFinder yields them; afterwards the layout  *)
(* is queried through offsetToFieldNum.                                     *)

SeqsUpTo(S, n) == UNION {[1..k -> S] : k \in 0..n}

StructDef(u, fs) == [union |-> u, opaque |-> FALSE, fields |-> fs]

\* Modules with three struct types: 1 is built from scalars, 2 embeds 1 (also as
\* an array), 3 embeds 2.  Types 1 and 2 may carry a union name.
TypeTables ==
    { <<StructDef(u1, f1), StructDef(u2, f2), StructDef(FALSE, f3)>> :
        u1 \in BOOLEAN, f1 \in SeqsUpTo({I8, I32}, MaxInner),
        u2 \in BOOLEAN, f2 \in SeqsUpTo({I32, St(1), Arr(St(1), 2)}, MaxFields),
        f3 \in {f \in SeqsUpTo({I32, St(2)}, MaxInner) : \E i \in DOMAIN f : f[i] = St(2)} }

InitSA ==
    /\ InitFactory
    /\ types \in TypeTables
    /\ layout = DataLayoutOf(types)
    /\ structInfoMap = EmptyMap
    /\ structMap = {}
    /\ maxStructSize = 0
    /\ module = NoModule
    /\ ptsGraph = EmptyMap
    /\ last = NoCall
    /\ hist = NoHist

\* one iteration of run(): a type not yet registered is registered and flattened
RunStep(st) ==
    /\ status = "ok"
    /\ st \in DOMAIN types
    /\ st \notin structMap
    /\ ~isOpaque(st)
    /\ LET sa == addStructInfo(Analyzer, st)
       IN /\ structInfoMap' = sa.infos
          /\ maxStructSize' = sa.maxSize
          /\ status' = IF sa.ok THEN "ok" ELSE "fatal"
    /\ structMap' = structMap \cup {st}
    /\ last' = Call("run", st, 0, 0, FALSE)
    /\ UNCHANGED <<factoryVars, types, layout, module, ptsGraph, hist>>

RunDone == \A st \in DOMAIN types : isOpaque(st) \/ st \in structMap

\* offsetToFieldNum reads and changes nothing, so one query after the analysis
\* stands for any sequence of queries.
OffsetToFieldNum(st, offset) ==
    /\ status = "ok"
    /\ RunDone
    /\ last.op # "offsetToFieldNum"
    /\ LET r == offsetToFieldNum(structInfoMap, St(st), offset)
       IN /\ last' = Call("offsetToFieldNum", st, offset, r.ret, r.warn)
          /\ status' = IF r.fatal THEN "fatal" ELSE "ok"
    /\ UNCHANGED <<factoryVars, analyzerVars, types, layout, module, ptsGraph, hist>>

NextSA ==
    \/ \E st \in DOMAIN types : RunStep(st)
    \/ \E st \in DOMAIN types :
         \E offset \in (0 - 1)..getTypeAllocSize(St(st)) : OffsetToFieldNum(st, offset)

SpecSA == InitSA /\ [][NextSA]_vars

-----------------------------------------------------------------------------
(* What the layout of a type is, read off the type itself                   *)

\* number of leaf fields of a member type after flattening
RECURSIVE LeafCount(_)
RECURSIVE LeafCountFields(_)
LeafCount(t) ==
    LET e == stripArray(t)
    IN IF isStructTy(e)
       THEN IF isUnionName(e.id) THEN 1 ELSE LeafCountFields(types[e.id].fields)
       ELSE 1
LeafCountFields(fs) ==
    IF fs = <<>> THEN 0 ELSE LeafCount(Head(fs)) + LeafCountFields(Tail(fs))

\* expanded index of the first leaf of member i (from 0) of struct id
LeafIndexOfMember(id, i) == LeafCountFields(SubSeq(types[id].fields, 1, i))

\* built from scalar members and nested non-union structs only
RECURSIVE IsPlainStruct(_)
IsPlainStruct(id) ==
    /\ ~isUnionName(id)
    /\ ~isOpaque(id)
    /\ \A i \in DOMAIN types[id].fields :
          LET t == types[id].fields[i]
          IN /\ ~isArrayTy(t)
             /\ isStructTy(t) => IsPlainStruct(t.id)

\* byte offsets of the leaves of a plain struct, in flattening order
RECURSIVE LeafOffsets(_, _)
RECURSIVE LeafOffsetsFields(_, _, _)
LeafOffsets(id, base) == LeafOffsetsFields(id, 1, base)
LeafOffsetsFields(id, i, base) ==
    IF i > Len(types[id].fields) THEN <<>>
    ELSE LET t == types[id].fields[i]
             o == base + layout[id].offsets[i]
         IN (IF isStructTy(t) THEN LeafOffsets(t.id, o) ELSE <<o>>)
            \o LeafOffsetsFields(id, i + 1, base)

\* the expanded index of the union that byte b of non-union struct id lies in,
\* reached through non-union structs and arrays; -1 if b lies in no such union
RECURSIVE UnionFieldAt(_, _)
UnionFieldAt(id, b) ==
    LET fs == types[id].fields
        In(i) == /\ layout[id].offsets[i] <= b
                 /\ b < layout[id].offsets[i] + getTypeAllocSize(fs[i])
        hit == {i \in DOMAIN fs : In(i)}
    IN IF hit = {} THEN 0 - 1
       ELSE LET i == CHOOSE x \in hit : TRUE
                e == stripArray(fs[i])
                rel == (b - layout[id].offsets[i]) % getTypeAllocSize(e)
            IN IF ~isStructTy(e) THEN 0 - 1
               ELSE IF isUnionName(e.id) THEN LeafIndexOfMember(id, i - 1)
               ELSE LET r == UnionFieldAt(e.id, rel)
                    IN IF r < 0 THEN r ELSE LeafIndexOfMember(id, i - 1) + r

-----------------------------------------------------------------------------
(* C7: the expanded field count of a flattened non-union struct is the sum  *)
(* over its members of 1 for a scalar, pointer or union member and of the   *)
(* nested struct's own count for a struct member, an array member counting  *)
(* as one element; member j maps to the expanded index that is the count of *)
(* the members before it ({int; struct{int;int}; int}: 4 and [0,1,3]).      *)
C7_ExpandedFieldCount ==
    \A st \in DOMAIN structInfoMap :
        (structInfoMap[st].finalized /\ ~isUnionName(st)) =>
            /\ getExpandedSize(structInfoMap[st]) = LeafCountFields(types[st].fields)
            /\ structInfoMap[st].offsetMap =
                  [j \in 1..Len(types[st].fields) |-> LeafIndexOfMember(st, j - 1)]

C7_Witness ==
    /\ types[1] = StructDef(FALSE, <<I32, I32>>)
    /\ types[2] = StructDef(FALSE, <<I32, St(1), I32>>)
    /\ 2 \in DOMAIN structInfoMap
    /\ structInfoMap[2].finalized
    /\ getExpandedSize(structInfoMap[2]) = 4
    /\ structInfoMap[2].offsetMap = <<0, 1, 3>>

(* C8: for a struct built from scalar members and nested non-union structs, *)
(* offsetToFieldNum of the byte offset of the leaf with expanded index k    *)
(* returns k.                                                               *)
C8_LeafOffsetRoundTrip ==
    (last.op = "offsetToFieldNum" /\ IsPlainStruct(last.x)) =>
        \A k \in DOMAIN LeafOffsets(last.x, 0) :
            LeafOffsets(last.x, 0)[k] = last.y =>
                (status = "ok" /\ last.ret = k - 1)

C8_Witness ==
    /\ types[1] = StructDef(FALSE, <<I32, I32>>)
    /\ types[2] = StructDef(FALSE, <<I32, St(1), I32>>)
    /\ last.op = "offsetToFieldNum" /\ last.x = 2 /\ last.y = 8 /\ last.ret = 2

(* C9: a type with a union name flattens to exactly one expanded field with *)
(* isFieldUnion set, and offsetToFieldNum maps every byte offset inside     *)
(* such a union to that field: 0 when the union is the pointee, the union   *)
(* member's expanded index in the enclosing struct when it is nested.       *)
C9_UnionOneField ==
    /\ \A st \in DOMAIN structInfoMap :
          (structInfoMap[st].finalized /\ isUnionName(st)) =>
              /\ getExpandedSize(structInfoMap[st]) = 1
              /\ isFieldUnion(structInfoMap[st], 0)
    /\ (last.op = "offsetToFieldNum" /\ last.y >= 0
          /\ last.y < getTypeAllocSize(St(last.x))) =>
          IF isUnionName(last.x)
          THEN status = "ok" /\ last.ret = 0
          ELSE UnionFieldAt(last.x, last.y) >= 0 =>
                 (status = "ok" /\ last.ret = UnionFieldAt(last.x, last.y))

\* a byte in the middle of a union that is nested two levels down, behind other fields
C9_Witness ==
    /\ last.op = "offsetToFieldNum" /\ last.x = 3 /\ ~isUnionName(2) /\ isUnionName(1)
    /\ UnionFieldAt(3, last.y) >= 2
    /\ UnionFieldAt(3, last.y - 1) = UnionFieldAt(3, last.y)
    /\ last.ret = UnionFieldAt(3, last.y)

-----------------------------------------------------------------------------
(* The module the factory is exercised on                                   *)

\* struct.inner {i32, i32}; struct.outer {i32, struct.inner, i32};
\* union.u {i32, i64}; struct.empty {}
ModuleTypes ==
    << StructDef(FALSE, <<I32, I32>>),
       StructDef(FALSE, <<I32, St(1), I32>>),
       StructDef(TRUE, <<I32, I64>>),
       StructDef(FALSE, <<>>) >>

\* StructAnalyzer::run over the types first .. last, as at module load
RECURSIVE runAnalyzer(_, _, _)
runAnalyzer(sa, first, lastTy) ==
    IF first > lastTy THEN sa
    ELSE runAnalyzer(IF first \in DOMAIN sa.infos THEN sa ELSE addStructInfo(sa, first),
                     first + 1, lastTy)

\* @g = global %struct.outer; define @f; three constant GEPs into @g:
\* &g.inner (field 1), &g.last (field 3), &g.inner.a (field 1 again)
ExampleModule ==
    [values |-> << GlobalVariable(St(2)),
                   Function,
                   ConstGEP(St(2), 1, <<0, 1>>),
                   ConstGEP(St(2), 1, <<0, 2>>),
                   ConstGEP(St(2), 1, <<0, 1, 0>>) >>,
     globals |-> <<1>>,
     functions |-> <<2>>]

CreatableValues == {NullValue, 1}
Functions == {2}
ResolvableValues == {1, 3, 4, 5}

Init ==
    /\ InitFactory
    /\ types = ModuleTypes
    /\ layout = DataLayoutOf(types)
    /\ LET sa == runAnalyzer([infos |-> EmptyMap, maxSize |-> 0, ok |-> TRUE], 1, Len(types))
       IN /\ structInfoMap = sa.infos
          /\ maxStructSize = sa.maxSize
    /\ structMap = DOMAIN types
    /\ module = ExampleModule
    /\ ptsGraph = EmptyMap
    /\ last = NoCall
    /\ hist = NoHist

-----------------------------------------------------------------------------
(* The factory's operations, one call each.  A failed assertion leaves      *)
(* status = "fatal" and a call that never returns status = "hang"; nothing  *)
(* is called after either.  cap bounds the node table where a call appends. *)

CreateValueNode(cap, val) ==
    /\ status = "ok"
    /\ NumNodesOf(nodes) < cap
    /\ LET r == createValueNode(Factory, val)
       IN /\ SetFactory(r.f)
          /\ last' = Call("createValueNode", val, 0, r.ret, val \in DOMAIN valueNodeMap)
    /\ UNCHANGED <<analyzerVars, moduleVars, ptsGraph, hist>>

CreateObjectNode(cap, val, uo, heap) ==
    /\ status = "ok"
    /\ NumNodesOf(nodes) < cap
    /\ LET r == createObjectNode(Factory, val, uo, heap)
       IN /\ SetFactory(r.f)
          /\ last' = Call("createObjectNode", val, 0, r.ret, val \in DOMAIN objNodeMap)
    /\ UNCHANGED <<analyzerVars, moduleVars, ptsGraph, hist>>

CreateObjectNodeAt(cap, base, offset, uo, heap) ==
    /\ status = "ok"
    /\ NumNodesOf(nodes) < cap
    /\ LET r == createObjectNodeAt(Factory, base, offset, uo, heap)
       IN /\ SetFactory(r.f)
          /\ last' = Call("createObjectNodeAt", base, offset, r.ret, FALSE)
    /\ UNCHANGED <<analyzerVars, moduleVars, ptsGraph, hist>>

CreateReturnNode(cap, fn) ==
    /\ status = "ok"
    /\ NumNodesOf(nodes) < cap
    /\ LET r == createReturnNode(Factory, fn)
       IN /\ SetFactory(r.f)
          /\ last' = Call("createReturnNode", fn, 0, r.ret, fn \in DOMAIN returnMap)
    /\ UNCHANGED <<analyzerVars, moduleVars, ptsGraph, hist>>

CreateVarargNode(cap, fn) ==
    /\ status = "ok"
    /\ NumNodesOf(nodes) < cap
    /\ LET r == createVarargNode(Factory, fn)
       IN /\ SetFactory(r.f)
          /\ last' = Call("createVarargNode", fn, 0, r.ret, fn \in DOMAIN varargMap)
    /\ UNCHANGED <<analyzerVars, moduleVars, ptsGraph, hist>>

\* last.y: the cache key of a constant GEP; last.flag: the key was resolved before
GetValueNodeFor(val) ==
    /\ status = "ok"
    /\ LET r == getValueNodeFor(Factory, val)
           key == IF Values[val].k = "gep" THEN gepMapKey(Factory, val) ELSE <<>>
           seen == key # <<>> /\ key \in DOMAIN hist.first
       IN /\ SetFactory(r.f)
          /\ last' = Call("getValueNodeFor", val, key, r.ret, seen)
          /\ hist' = IF key # <<>> /\ ~seen /\ r.f.status = "ok"
                     THEN [hist EXCEPT !.first = Put(@, key, r.ret)]
                     ELSE hist
    /\ UNCHANGED <<analyzerVars, moduleVars, ptsGraph>>

ClearGepMap ==
    /\ status = "ok"
    /\ gepMap # EmptyMap
    /\ SetFactory(clearGepMap(Factory))
    /\ last' = Call("clearGepMap", 0, 0, 0, FALSE)
    /\ UNCHANGED <<analyzerVars, moduleVars, ptsGraph, hist>>

MergeNode(cap, n0, n1) ==
    /\ status = "ok"
    /\ hist.nmerge < cap
    /\ LET r == mergeNode(Factory, n0, n1)
       IN /\ SetFactory(r.f)
          /\ last' = Call("mergeNode", n0, n1, 0, FALSE)
          /\ hist' = [hist EXCEPT !.nmerge = @ + 1,
                                  !.merges = IF r.f.status # "ok" THEN <<>>
                                             ELSE IF Len(@) < 2 THEN Append(@, <<n0, n1>>)
                                             ELSE <<@[2], <<n0, n1>>>>]
    /\ UNCHANGED <<analyzerVars, moduleVars, ptsGraph>>

GetMergeTarget(n) ==
    /\ status = "ok"
    /\ LET r == getMergeTarget(Factory, n)
       IN /\ SetFactory(r.f)
          /\ last' = Call("getMergeTarget", n, 0, r.ret, FALSE)
    /\ UNCHANGED <<analyzerVars, moduleVars, ptsGraph, hist>>

Creation(cap) ==
    \/ \E val \in CreatableValues : CreateValueNode(cap, val)
    \/ \E val \in CreatableValues : \E uo \in BOOLEAN, heap \in BOOLEAN :
          CreateObjectNode(cap, val, uo, heap)
    \/ \E base \in 0..(NumNodesOf(nodes) - 1), offset \in 0..NumNodesOf(nodes) :
          \E uo \in BOOLEAN, heap \in BOOLEAN : CreateObjectNodeAt(cap, base, offset, uo, heap)
    \/ \E fn \in Functions : CreateReturnNode(cap, fn)
    \/ \E fn \in Functions : CreateVarargNode(cap, fn)

Resolution ==
    \/ \E val \in ResolvableValues : GetValueNodeFor(val)
    \/ ClearGepMap

Merging(cap) ==
    \/ \E n0 \in 0..NumNodesOf(nodes), n1 \in 0..NumNodesOf(nodes) : MergeNode(cap, n0, n1)
    \/ \E n \in 0..NumNodesOf(nodes) : GetMergeTarget(n)

\* node creation and constant resolution
Next == Creation(MaxNodes) \/ Resolution

Spec == Init /\ [][Next]_vars

\* merging, over the reserved nodes and fresh value nodes
NextMerge ==
    \/ CreateValueNode(MaxMergeNodes, NullValue)
    \/ Merging(MaxMerges)

SpecMerge == Init /\ [][NextMerge]_vars

\* every operation of the factory
NextAll == Creation(MaxNodesAll) \/ Resolution \/ Merging(MaxMergesAll)

SpecAll == Init /\ [][NextAll]_vars

-----------------------------------------------------------------------------
(* C1: a second createObjectNode(v, isUnion, isHeap) for a non-null value v *)
(* that already has an object node returns the index of the first call and  *)
(* leaves getNumNodes as it was before the call.                            *)
C1_IdempotentCreate ==
    (last.op = "createObjectNode" /\ last.x # NullValue /\ last.flag) =>
        /\ last.ret = objNodeMap[last.x]
        /\ NumNodesOf(nodes) = last.n0

(* C2: in every state reached by node-creation calls that passed their      *)
(* assertions, every object node n with offset o > 0 has n - o an object    *)
(* node of offset 0, and for every i below getObjectSize(n - o) the node    *)
(* (n - o) + i is an object node of offset i.                               *)
C2_Contiguity ==
    status = "ok" =>
        \A n \in DOMAIN nodes :
            (nodes[n].type = "OBJ_NODE" /\ nodes[n].offset > 0) =>
                LET b == n - nodes[n].offset
                IN /\ b \in DOMAIN nodes
                   /\ nodes[b].type = "OBJ_NODE"
                   /\ nodes[b].offset = 0
                   /\ \A i \in 0..(getObjectSize(Factory, b) - 1) :
                         /\ nodes[b + i].type = "OBJ_NODE"
                         /\ nodes[b + i].offset = i

(* C3: after mergeNode(a, b) followed by mergeNode(b, c), the representative *)
(* of c and of b is the representative of a, and every getMergeTarget call   *)
(* on a, b or c made afterwards, in any order and any number of times,       *)
(* returns that representative.                                              *)
C3_MergeTransitive ==
    (Len(hist.merges) = 2 /\ hist.merges[1][2] = hist.merges[2][1]) =>
        LET a == hist.merges[1][1]
            b == hist.merges[1][2]
            c == hist.merges[2][2]
        IN /\ status = "ok" =>
                 /\ getMergeTargetConst(nodes, c) = getMergeTargetConst(nodes, a)
                 /\ getMergeTargetConst(nodes, b) = getMergeTargetConst(nodes, a)
           /\ (last.op = "getMergeTarget" /\ last.x \in {a, b, c}) =>
                 /\ status = "ok"
                 /\ last.ret = getMergeTargetConst(nodes, a)

(* C4: the five reserved nodes are at indices 0..4 in every state: 0 and 2   *)
(* value nodes, 1, 3 and 4 object nodes, each with offset 0 and no source    *)
(* value, and the special-node getters return 0, 1, 2, 3, 4.                 *)
C4_ReservedNodes ==
    /\ 0..4 \subseteq DOMAIN nodes
    /\ \A i \in 0..4 :
          /\ nodes[i].idx = i
          /\ nodes[i].type = (IF i \in {0, 2} THEN "VALUE_NODE" ELSE "OBJ_NODE")
          /\ nodes[i].offset = 0
          /\ nodes[i].value = NullValue
    /\ <<getUniversalPtrNode, getUniversalObjNode, getNullPtrNode,
         getNullObjectNode, getConstantIntNode>> = <<0, 1, 2, 3, 4>>

\* nodes were created, a constant GEP was resolved and a reserved node was merged away
C4_Witness ==
    /\ status = "ok"
    /\ NumNodesOf(nodes) > 6
    /\ gepMap # EmptyMap
    /\ \E i \in 0..4 : nodes[i].mergeTarget # i

(* C5: every operation only appends to the node table: the node count never *)
(* decreases and no existing node changes its kind, index, offset, source    *)
(* value or isUnion / isHeap flag; mergeNode and getMergeTarget change       *)
(* nothing but mergeTarget fields, and no other operation changes those.     *)
C5_AppendOnly ==
    [][ /\ NumNodesOf(nodes') >= NumNodesOf(nodes)
        /\ \A i \in DOMAIN nodes :
              /\ i \in DOMAIN nodes'
              /\ [nodes'[i] EXCEPT !.mergeTarget = 0] = [nodes[i] EXCEPT !.mergeTarget = 0]
              /\ last'.op \notin {"mergeNode", "getMergeTarget"} =>
                    nodes'[i].mergeTarget = nodes[i].mergeTarget
        /\ last'.op \in {"mergeNode", "getMergeTarget"} =>
              /\ DOMAIN nodes' = DOMAIN nodes
              /\ UNCHANGED <<valueNodeMap, objNodeMap, returnMap, varargMap, gepMap,
                             gepNodeMap>>
      ]_vars

\* a merge has retargeted a node that a creation call appended
C5_Witness ==
    /\ status = "ok"
    /\ last.op = "mergeNode"
    /\ last.y >= 5
    /\ nodes[last.y].mergeTarget = last.x
    /\ last.x # last.y

(* C6: resolving a constant GEP with a non-zero field number again, for a    *)
(* (base value node, field number) pair resolved before, returns the node    *)
(* of the first resolution and allocates no node, whatever was called in     *)
(* between.                                                                  *)
C6_GepMemoized ==
    (last.op = "getValueNodeFor" /\ last.flag) =>
        /\ status = "ok"
        /\ last.ret = hist.first[last.y]
        /\ NumNodesOf(nodes) = last.n0

-----------------------------------------------------------------------------
(* Population (PointTo.cc)                                                  *)

\* a function of the module; args and insts are the ids of its formal
\* arguments and of its instructions, allocFn / sizeArg its entry, if any,
\* in the table of allocation functions
FunctionDef(retVoid, vararg, args, addrTaken, insts, allocFn, sizeArg) ==
    [k |-> "function", ptr |-> TRUE, ty |-> I8, op |-> 0, idx |-> <<>>,
     decl |-> FALSE, def |-> 0, intrinsic |-> FALSE, retVoid |-> retVoid,
     vararg |-> vararg, args |-> args, addrTaken |-> addrTaken, insts |-> insts,
     allocFn |-> allocFn, sizeArg |-> sizeArg]

Argument == Value("argument", FALSE, I32, 0, <<>>)

\* an instruction: ty is the pointee of its (pointer) type, callee the called
\* function (0: none or indirect), sizeLit the literal passed as the size
\* argument (-1: not a constant), cast the pointee type of the first
\* pointer-typed cast among its users
Instruction(opcode, ptr, ty, callee, sizeLit, cast) ==
    [k |-> "inst", ptr |-> ptr, ty |-> ty, op |-> 0, idx |-> <<>>, decl |-> FALSE,
     def |-> 0, opcode |-> opcode, callee |-> callee, sizeLit |-> sizeLit, cast |-> cast]

NoCast == [k |-> "none"]

\* isAllocFn(name, &size, &flag): membership in the allocator table and the
\* position of the size argument (negative: none)
isAllocFn(fn) == Values[fn].allocFn
allocSizeArg(fn) == Values[fn].sizeArg

\* for (i = 1; i < stSize; ++i) createObjectNode(obj, i, stInfo->isFieldUnion(i))
RECURSIVE processStructFields(_, _, _, _, _)
processStructFields(f, obj, i, stSize, stInfo) ==
    IF ~(i < stSize) \/ f.status # "ok" THEN f
    ELSE processStructFields(createObjectNodeAt(f, obj, i, isFieldUnion(stInfo, i), FALSE).f,
                             obj, i + 1, stSize, stInfo)

\* the same without the early return for an empty struct
processStruct_noEmpty(f, v, stType) ==
    IF ~hasStructInfo(structInfoMap, stType) THEN Fatal(f)
    ELSE LET stInfo == structInfoMap[stType]
             stSize == getExpandedSize(stInfo)
             obj == getObjectNodeFor(f, v)
         IN IF obj.ret = InvalidIndex
            THEN LET o == createObjectNode(f, v, ~isEmpty(stInfo) /\ isFieldUnion(stInfo, 0), FALSE)
                 IN Out(processStructFields(o.f, o.ret, 1, stSize, stInfo), o.ret)
            ELSE obj

processStruct(f, v, stType) ==
    IF ~hasStructInfo(structInfoMap, stType) THEN Fatal(f)
    ELSE LET stInfo == structInfoMap[stType]
             stSize == getExpandedSize(stInfo)
             obj == getObjectNodeFor(f, v)
         IN IF isEmpty(stInfo) THEN Out(f, getNullObjectNode)
            ELSE IF obj.ret = InvalidIndex
            THEN LET o == createObjectNode(f, v, isFieldUnion(stInfo, 0), FALSE)
                 IN Out(processStructFields(o.f, o.ret, 1, stSize, stInfo), o.ret)
            ELSE obj

\* T is the pointer type whose pointee is `pointee`
createNodeForPointerVal(f, V, pointee) ==
    LET type == stripArray(pointee)
    IN IF isStructTy(type)
       THEN IF isUnionName(type.id)
            THEN createObjectNode(f, V, TRUE, FALSE).f
            ELSE processStruct(f, V, type.id).f
       ELSE createObjectNode(f, V, FALSE, FALSE).f

RECURSIVE createNodeForGlobalVars(_, _)
createNodeForGlobalVars(f, gs) ==
    IF gs = <<>> \/ f.status # "ok" THEN f
    ELSE LET GV == Head(gs)
         IN IF Values[GV].decl THEN createNodeForGlobalVars(f, Tail(gs))
            ELSE LET v == createValueNode(f, GV)
                     f1 == IF v.f.status # "ok" THEN v.f
                           ELSE createNodeForPointerVal(v.f, GV, Values[GV].ty)
                 IN createNodeForGlobalVars(f1, Tail(gs))

RECURSIVE createValueNodes(_, _)
createValueNodes(f, vs) ==
    IF vs = <<>> \/ f.status # "ok" THEN f
    ELSE createValueNodes(createValueNode(f, Head(vs)).f, Tail(vs))

RECURSIVE createNodeForFunctions(_, _)
createNodeForFunctions(f, fs) ==
    IF fs = <<>> \/ f.status # "ok" THEN f
    ELSE LET F == Head(fs)
             fd == Values[F]
         IN IF fd.decl \/ fd.intrinsic THEN createNodeForFunctions(f, Tail(fs))
            ELSE LET f1 == IF ~fd.retVoid THEN createReturnNode(f, F).f ELSE f
                     f2 == IF fd.vararg /\ f1.status = "ok"
                           THEN createVarargNode(f1, F).f ELSE f1
                     f3 == createValueNodes(f2, fd.args)
                     f4 == IF fd.addrTaken /\ f3.status = "ok"
                           THEN createValueNode(f3, F).f ELSE f3
                 IN createNodeForFunctions(f4, Tail(fs))

createNodeForGlobals(f) ==
    createNodeForFunctions(createNodeForGlobalVars(f, module.globals), module.functions)

\* the pointee the allocation is sized by: of the call's own type, or, for
\* an i8 pointee, of the first pointer-typed cast of the call's result
heapElemType(I) ==
    IF Values[I].ty = I8 /\ Values[I].cast # NoCast THEN Values[I].cast ELSE Values[I].ty

\* allocSize: the array bounds multiplied by the struct's alloc size
heapAllocSize(I) ==
    LET elemType == heapElemType(I)
        n == IF arrayCount(elemType) = 0 THEN 1 ELSE arrayCount(elemType)
        st == stripArray(elemType)
    IN IF isStructTy(st) /\ hasStructInfo(structInfoMap, st.id)
       THEN n * getAllocSize(structInfoMap[st.id])
       ELSE n

\* if (zext_size > allocSize) maxSize = zext_size;
widenToLiteral_never(maxSize, allocSize, zext_size) == maxSize
widenToLiteral(maxSize, allocSize, zext_size) ==
    IF zext_size > allocSize THEN zext_size ELSE maxSize

\* for (i = 1; i < maxSize; ++i) createObjectNode(obj, i, isUnion, true)
RECURSIVE heapFields(_, _, _, _, _, _)
heapFields(f, obj, i, maxSize, hasInfo, stInfo) ==
    IF ~(i < maxSize) \/ f.status # "ok" THEN f
    ELSE LET isUnion == IF hasInfo /\ i < getExpandedSize(stInfo)
                        THEN isFieldUnion(stInfo, i) ELSE FALSE
         IN heapFields(createObjectNodeAt(f, obj, i, isUnion, TRUE).f,
                       obj, i + 1, maxSize, hasInfo, stInfo)

createNodeForHeapObject(f, I, SizeArg) ==
    LET st == stripArray(heapElemType(I))
        isStruct == isStructTy(st)
        hasInfo == isStruct /\ hasStructInfo(structInfoMap, st.id)
        stInfo == IF hasInfo THEN structInfoMap[st.id] ELSE NewStructInfo
        isUnion == isStruct /\ isUnionName(st.id)
        maxSize0 == IF isStruct THEN getExpandedSize(stInfo) ELSE 0
        allocSize == heapAllocSize(I)
        maxSize1 == IF SizeArg >= 0 /\ Values[I].sizeLit >= 0
                    THEN widenToLiteral(maxSize0, allocSize, Values[I].sizeLit)
                    ELSE maxSize0
        maxSize == IF maxSize1 = 0 THEN maxStructSize ELSE maxSize1
        obj == getObjectNodeFor(f, I)
    IN IF ~Values[I].ptr THEN Fatal(f).f
       ELSE IF isStruct /\ ~hasInfo THEN Fatal(f).f
       ELSE IF obj.ret = InvalidIndex
       THEN LET o == createObjectNode(f, I, isUnion, TRUE)
            IN heapFields(o.f, o.ret, 1, maxSize, hasInfo, stInfo)
       ELSE f

\* the second loop over a function's instructions
RECURSIVE handleAllocators(_, _)
handleAllocators(f, is) ==
    IF is = <<>> \/ f.status # "ok" THEN f
    ELSE LET I == Head(is)
             inst == Values[I]
             f1 == CASE inst.opcode = "alloca" ->
                          IF getValueNodeFor(f, I).ret = InvalidIndex \/ ~inst.ptr
                          THEN Fatal(f).f
                          ELSE createNodeForPointerVal(f, I, inst.ty)
                     [] inst.opcode = "call" ->
                          IF inst.callee # 0 /\ isAllocFn(inst.callee)
                          THEN createNodeForHeapObject(f, I, allocSizeArg(inst.callee))
                          ELSE f
                     [] OTHER -> f
         IN handleAllocators(f1, Tail(is))

RECURSIVE scanFunctions(_, _)
scanFunctions(f, fs) ==
    IF fs = <<>> \/ f.status # "ok" THEN f
    ELSE LET F == Head(fs)
             fd == Values[F]
         IN IF fd.decl \/ fd.intrinsic \/ isAllocFn(F)
            THEN scanFunctions(f, Tail(fs))
            ELSE scanFunctions(handleAllocators(createValueNodes(f, fd.insts), fd.insts),
                               Tail(fs))

populateNodeFactory(f) == scanFunctions(createNodeForGlobals(f), module.functions)

-----------------------------------------------------------------------------
(* Population of one module.  The module: a global @g, the allocator        *)
(* @kmalloc(size) with a body of its own, and @f, whose body is an alloca   *)
(* and a call of @kmalloc.  The types of @g and of the alloca, the type and *)
(* the cast of the call's result and its size argument vary.                *)

PopValues(gty, aty, pty, cast, sizeArg, lit) ==
    << GlobalVariable(gty),
       FunctionDef(FALSE, FALSE, <<3>>, FALSE, <<4>>, TRUE, sizeArg),
       Argument,
       Instruction("other", TRUE, I8, 0, 0 - 1, NoCast),
       FunctionDef(FALSE, TRUE, <<>>, TRUE, <<6, 7>>, FALSE, 0 - 1),
       Instruction("alloca", TRUE, aty, 0, 0 - 1, NoCast),
       Instruction("call", TRUE, pty, 2, lit, cast) >>

FunctionModules ==
    { [values |-> PopValues(gty, aty, pty, cast, sizeArg, lit),
       globals |-> <<1>>, functions |-> <<2, 5>>] :
        gty \in {I32, St(2), St(3)},
        aty \in {I32, St(1), St(4)},
        pty \in {I8, I32, St(1), St(2), St(3), St(4), Arr(I32, 3)},
        cast \in {NoCast, I32, St(1), St(3)},
        sizeArg \in {0 - 1, 0},
        lit \in (0 - 1)..MaxLit }

\* modules that define two global variables and nothing else
GlobalsOnlyModules ==
    { [values |-> <<GlobalVariable(g1), GlobalVariable(g2)>>,
       globals |-> <<1, 2>>, functions |-> <<>>] :
        g1 \in {I32, St(2), St(3), St(4)}, g2 \in {I32, St(1)} }

PopModules == FunctionModules \cup GlobalsOnlyModules

InitPop ==
    /\ InitFactory
    /\ types = ModuleTypes
    /\ layout = DataLayoutOf(types)
    /\ LET sa == runAnalyzer([infos |-> EmptyMap, maxSize |-> 0, ok |-> TRUE], 1, Len(types))
       IN /\ structInfoMap = sa.infos
          /\ maxStructSize = sa.maxSize
    /\ structMap = DOMAIN types
    /\ module \in PopModules
    /\ ptsGraph = EmptyMap
    /\ last = NoCall
    /\ hist = NoHist

PopulateNodeFactory ==
    /\ status = "ok"
    /\ hist.npop < MaxRuns
    /\ SetFactory(populateNodeFactory(Factory))
    /\ last' = Call("populateNodeFactory", 0, 0, 0, FALSE)
    /\ hist' = [hist EXCEPT !.npop = @ + 1]
    /\ UNCHANGED <<analyzerVars, moduleVars, ptsGraph>>

NextPop == PopulateNodeFactory

SpecPop == InitPop /\ [][NextPop]_vars

\* the call sites population sizes: calls of a table allocator, outside the
\* bodies of the allocators themselves
AllocCalls ==
    {I \in DOMAIN Values :
        /\ Values[I].k = "inst"
        /\ Values[I].opcode = "call"
        /\ Values[I].callee # 0
        /\ isAllocFn(Values[I].callee)
        /\ \E F \in DOMAIN Values :
              /\ Values[F].k = "function"
              /\ ~isAllocFn(F)
              /\ \E j \in DOMAIN Values[F].insts : Values[F].insts[j] = I}

-----------------------------------------------------------------------------
(* C11: createValueNode(v) for a non-null v that has a value node,          *)
(* createReturnNode(f) for a function that has a return node and            *)
(* createVarargNode(f) for a function that has a vararg node end in the     *)
(* fatal state, return no index, and leave the existing mapping (and every  *)
(* other map) as it was.                                                    *)
C11_DuplicateCreateFatal ==
    [][ LET dupValue == /\ last'.op = "createValueNode"
                        /\ last'.x # NullValue
                        /\ last'.x \in DOMAIN valueNodeMap
            dupReturn == last'.op = "createReturnNode" /\ last'.x \in DOMAIN returnMap
            dupVararg == last'.op = "createVarargNode" /\ last'.x \in DOMAIN varargMap
        IN (dupValue \/ dupReturn \/ dupVararg) =>
              /\ status' = "fatal"
              /\ last'.ret = InvalidIndex
              /\ valueNodeMap' = valueNodeMap
              /\ returnMap' = returnMap
              /\ varargMap' = varargMap
      ]_vars

\* a second createValueNode(@g) has failed; @g is still mapped to its first node
C11_Witness ==
    /\ status = "fatal"
    /\ last.op = "createValueNode"
    /\ last.x = 1
    /\ last.flag
    /\ last.ret = InvalidIndex
    /\ valueNodeMap[1] < last.n0

-----------------------------------------------------------------------------
(* C12: a second run of population over a populated module that defines     *)
(* only global variables completes without a fatal error and leaves the     *)
(* node table, the value-to-node map and the object-to-node map unchanged.  *)
C12_RepopulationIdempotent ==
    [][ (/\ last'.op = "populateNodeFactory"
         /\ hist.npop >= 1
         /\ module.functions = <<>>
         /\ \E g \in DOMAIN Values : Values[g].k = "global" /\ ~Values[g].decl) =>
            /\ status' = "ok"
            /\ nodes' = nodes
            /\ valueNodeMap' = valueNodeMap
            /\ objNodeMap' = objNodeMap
      ]_vars

\* the instructions in the bodies of the defined, non-intrinsic functions
BodyInstructions ==
    {I \in DOMAIN Values :
        \E F \in DOMAIN Values :
            /\ Values[F].k = "function"
            /\ ~Values[F].decl
            /\ ~Values[F].intrinsic
            /\ \E j \in DOMAIN Values[F].insts : Values[F].insts[j] = I}

(* C13: after population every instruction in the body of every defined,    *)
(* non-intrinsic function, the functions named in the allocator table       *)
(* included, has a value node: getValueNodeFor of it is a valid index, and  *)
(* no two instructions have the same one.                                   *)
C13_EveryInstructionHasValueNode ==
    (hist.npop = 1 /\ status = "ok") =>
        /\ \A I \in BodyInstructions :
              /\ getValueNodeFor(Factory, I).ret # InvalidIndex
              /\ getValueNodeFor(Factory, I).ret \in DOMAIN nodes
              /\ nodes[getValueNodeFor(Factory, I).ret].type = "VALUE_NODE"
        /\ \A I \in BodyInstructions, J \in BodyInstructions :
              I # J => getValueNodeFor(Factory, I).ret # getValueNodeFor(Factory, J).ret

-----------------------------------------------------------------------------
(* C14: once a struct type's StructInfo is finalized, no later step of the  *)
(* analysis changes anything of it: its field lists, offsets, flags and its *)
(* set of (container type, byte offset) pairs stay as they were.            *)
C14_FinalizedImmutable ==
    [][ \A st \in DOMAIN structInfoMap :
           structInfoMap[st].finalized =>
              /\ st \in DOMAIN structInfoMap'
              /\ structInfoMap'[st] = structInfoMap[st]
      ]_vars

-----------------------------------------------------------------------------
(* Points-to sets (PtsSet.h).  An AndersPtsSet wraps a bit vector, here the *)
(* set of the indices whose bit is set; a result is [bv, ret].              *)

\* SparseBitVector::test_and_set: sets the bit, true iff it was clear
test_and_set_old(bv, idx) == [bv |-> bv \cup {idx}, ret |-> idx \in bv]
test_and_set(bv, idx) == [bv |-> bv \cup {idx}, ret |-> idx \notin bv]

has(bv, idx) == idx \in bv

insert(bv, idx) == test_and_set(bv, idx)

\* the indices an iterator range [b, e) of a bit vector yields, in ascending
\* order: those of `other` from `from` on
RECURSIVE IterRange(_, _)
IterRange(other, from) ==
    LET rest == {i \in other : i >= from}
    IN IF rest = {} THEN <<>>
       ELSE LET m == CHOOSE i \in rest : \A j \in rest : i <= j
            IN <<m>> \o IterRange(other, m + 1)

\* for (i = b; i != e; ++i) ret |= bitvec.test_and_set(*i);
RECURSIVE insertRange(_, _, _)
insertRange(bv, range, ret) ==
    IF range = <<>> THEN [bv |-> bv, ret |-> ret]
    ELSE LET r == test_and_set(bv, Head(range))
         IN insertRange(r.bv, Tail(range), ret \/ r.ret)

reset(bv, idx) == bv \ {idx}

\* bitvec |= other.bitvec: true iff a bit was added
unionWith(bv, other) == [bv |-> bv \cup other, ret |-> ~(other \subseteq bv)]

clear(bv) == {}

\* ptsGraph[n]: std::map::operator[] makes an empty set for a new key
PtsOf(n) == IF n \in DOMAIN ptsGraph THEN ptsGraph[n] ELSE {}

PtsInsert(n, idx) ==
    /\ LET r == insert(PtsOf(n), idx)
       IN /\ ptsGraph' = Put(ptsGraph, n, r.bv)
          /\ last' = Call("insert", n, idx, 0, r.ret)
    /\ UNCHANGED <<factoryVars, status, analyzerVars, moduleVars, hist>>

PtsInsertRange(n, m, from) ==
    /\ LET r == insertRange(PtsOf(n), IterRange(PtsOf(m), from), FALSE)
       IN /\ ptsGraph' = Put(Put(ptsGraph, m, PtsOf(m)), n, r.bv)
          /\ last' = Call("insertRange", n, <<m, from>>, 0, r.ret)
    /\ UNCHANGED <<factoryVars, status, analyzerVars, moduleVars, hist>>

PtsUnionWith(n, m) ==
    /\ LET r == unionWith(PtsOf(n), PtsOf(m))
       IN /\ ptsGraph' = Put(Put(ptsGraph, m, PtsOf(m)), n, r.bv)
          /\ last' = Call("unionWith", n, m, 0, r.ret)
    /\ UNCHANGED <<factoryVars, status, analyzerVars, moduleVars, hist>>

PtsReset(n, idx) ==
    /\ ptsGraph' = Put(ptsGraph, n, reset(PtsOf(n), idx))
    /\ last' = Call("reset", n, idx, 0, FALSE)
    /\ UNCHANGED <<factoryVars, status, analyzerVars, moduleVars, hist>>

PtsClear(n) ==
    /\ ptsGraph' = Put(ptsGraph, n, clear(PtsOf(n)))
    /\ last' = Call("clear", n, 0, 0, FALSE)
    /\ UNCHANGED <<factoryVars, status, analyzerVars, moduleVars, hist>>

NextPts ==
    \/ \E n \in 1..MaxPtsNodes, idx \in 0..MaxPtsIdx : PtsInsert(n, idx)
    \/ \E n \in 1..MaxPtsNodes, m \in 1..MaxPtsNodes, from \in 0..MaxPtsIdx :
          PtsInsertRange(n, m, from)
    \/ \E n \in 1..MaxPtsNodes, m \in 1..MaxPtsNodes : PtsUnionWith(n, m)
    \/ \E n \in 1..MaxPtsNodes, idx \in 0..MaxPtsIdx : PtsReset(n, idx)
    \/ \E n \in 1..MaxPtsNodes : PtsClear(n)

SpecPts == Init /\ [][NextPts]_vars

-----------------------------------------------------------------------------
(* Resolution of constants whose target is not a global of the module       *)

\* @g = global %struct.outer; @ext = external global (no definition known);
\* null; inttoptr (i64 1 to i32*); ptrtoint (@g to i64), of integer type;
\* blockaddress; constant GEPs into null, into @ext and into @g, each to
\* field 0 and to the last field of %struct.outer
ConstModule ==
    [values |-> << GlobalVariable(St(2)),
                   [GlobalVariable(St(2)) EXCEPT !.decl = TRUE],
                   Value("null", TRUE, St(2), 0, <<>>),
                   Value("inttoptr", TRUE, I32, 0, <<>>),
                   Value("ptrtoint", FALSE, I64, 1, <<>>),
                   Value("blockaddress", TRUE, I8, 0, <<>>),
                   ConstGEP(St(2), 3, <<0, 0>>),
                   ConstGEP(St(2), 3, <<0, 2>>),
                   ConstGEP(St(2), 2, <<0, 0>>),
                   ConstGEP(St(2), 2, <<0, 2>>),
                   ConstGEP(St(2), 1, <<0, 2>>) >>,
     globals |-> <<1, 2>>,
     functions |-> <<>>]

InitConst ==
    /\ InitFactory
    /\ types = ModuleTypes
    /\ layout = DataLayoutOf(types)
    /\ LET sa == runAnalyzer([infos |-> EmptyMap, maxSize |-> 0, ok |-> TRUE], 1, Len(types))
       IN /\ structInfoMap = sa.infos
          /\ maxStructSize = sa.maxSize
    /\ structMap = DOMAIN types
    /\ module = ConstModule
    /\ ptsGraph = EmptyMap
    /\ last = NoCall
    /\ hist = NoHist

GetObjectNodeFor(val) ==
    /\ status = "ok"
    /\ LET r == getObjectNodeFor(Factory, val)
       IN /\ SetFactory(r.f)
          /\ last' = Call("getObjectNodeFor", val, 0, r.ret, FALSE)
    /\ UNCHANGED <<analyzerVars, moduleVars, ptsGraph, hist>>

NextConst ==
    \/ CreateValueNode(MaxNodesConst, 1)
    \/ \E uo \in BOOLEAN : CreateObjectNode(MaxNodesConst, 1, uo, FALSE)
    \/ \E base \in 5..(NumNodesOf(nodes) - 1), offset \in 1..3 :
          CreateObjectNodeAt(MaxNodesConst, base, offset, FALSE, FALSE)
    \/ \E val \in 2..Len(Values) : GetValueNodeFor(val)
    \/ \E val \in 2..Len(Values) : GetObjectNodeFor(val)

SpecConst == InitConst /\ [][NextConst]_vars

(* C16: a constant pointer whose target is unknown - an inttoptr cast, a    *)
(* ptrtoint cast or a block address - resolves, through getValueNodeFor and *)
(* through getObjectNodeFor, to the universal pointer or the universal      *)
(* object node, never to the null pointer node or the null object node.     *)
C16_UnknownTargetUniversal ==
    (/\ last.op \in {"getValueNodeFor", "getObjectNodeFor"}
     /\ Values[last.x].k \in {"inttoptr", "ptrtoint", "blockaddress"}) =>
        /\ status = "ok"
        /\ last.ret \in {getUniversalPtrNode, getUniversalObjNode}
        /\ last.ret \notin {getNullPtrNode, getNullObjectNode}

(* C17: getValueNodeFor of a constant GEP whose base operand resolves to    *)
(* null returns the null pointer node, and of one whose base resolves to    *)
(* the universal node returns the universal pointer node, whatever the      *)
(* field the GEP leads to; no node is created and no gepMap entry made.     *)
C17_GepOnNullOrUniversal ==
    (last.op = "getValueNodeFor" /\ Values[last.x].k = "gep") =>
        LET base == getValueNodeForConstant(Factory, Values[last.x].op).ret
            special == {getNullPtrNode, getNullObjectNode,
                        getUniversalPtrNode, getUniversalObjNode}
        IN base \in special =>
              /\ status = "ok"
              /\ last.ret = (IF base \in {getNullPtrNode, getNullObjectNode}
                             THEN getNullPtrNode ELSE getUniversalPtrNode)
              /\ NumNodesOf(nodes) = last.n0
              /\ \A key \in DOMAIN gepMap : key[1] \notin special

-----------------------------------------------------------------------------
(* Merging over the five nodes the constructor makes                        *)

NextChain == Merging(MaxMergesChain)

SpecChain == Init /\ [][NextChain]_vars

\* the node reached from n after k links of mergeTarget
RECURSIVE Follow(_, _, _)
Follow(nd, n, k) == IF k = 0 THEN n ELSE Follow(nd, nd[n].mergeTarget, k - 1)

\* the nodes on the chain that starts at n, n and the chain's end included
ChainOf(nd, n) == {Follow(nd, n, k) : k \in 0..NumNodesOf(nd)}

(* C18: a call getMergeTarget(n) of the mutating overload that returns,      *)
(* returns the representative the read-only overload computes; afterwards    *)
(* the read-only overload gives every node the representative it had, every  *)
(* node of the chain from n to the representative points at it directly,     *)
(* and no mergeTarget outside that chain has changed.                        *)
C18_PathCompression ==
    [][ (last'.op = "getMergeTarget" /\ status' = "ok") =>
           LET n == last'.x
               r == last'.ret
           IN /\ r = getMergeTargetConst(nodes, n)
              /\ DOMAIN nodes' = DOMAIN nodes
              /\ \A i \in DOMAIN nodes :
                    /\ getMergeTargetConst(nodes', i) = getMergeTargetConst(nodes, i)
                    /\ i \in ChainOf(nodes, n) => nodes'[i].mergeTarget = r
                    /\ i \notin ChainOf(nodes, n) =>
                          nodes'[i].mergeTarget = nodes[i].mergeTarget
      ]_vars

\* a chain of three links has been compressed: the node asked about and the
\* node it pointed at both point at the representative, two links away before
C18_Witness ==
    /\ status = "ok"
    /\ last.op = "getMergeTarget"
    /\ Len(hist.merges) = 2
    /\ hist.merges[1][1] = hist.merges[2][2]
    /\ last.x = hist.merges[1][2]
    /\ last.ret = hist.merges[2][1]
    /\ Cardinality({last.x, hist.merges[1][1], last.ret}) = 3
    /\ nodes[last.x].mergeTarget = last.ret
    /\ nodes[hist.merges[1][1]].mergeTarget = last.ret
    /\ nodes[last.ret].mergeTarget = last.ret

-----------------------------------------------------------------------------
(* Objects and their fields: creation, getOffsetObjectNode, getObjectBound  *)

GetOffsetObjectNode(n, offset) ==
    /\ status = "ok"
    /\ LET r == getOffsetObjectNode(Factory, n, offset)
       IN /\ SetFactory(r.f)
          /\ last' = Call("getOffsetObjectNode", n, offset, r.ret, FALSE)
    /\ UNCHANGED <<analyzerVars, moduleVars, ptsGraph, hist>>

\* getObjectBound(i): getObjectOffset and getObjectSize assert isObjectNode(i);
\* last.y is the size, last.ret the bound
GetObjectBound(i) ==
    /\ status = "ok"
    /\ IF inTable(Factory, i) /\ isObjectNode(Factory, i)
       THEN /\ last' = Call("getObjectBound", i, getObjectSize(Factory, i),
                            getObjectBound(Factory, i), FALSE)
            /\ UNCHANGED status
       ELSE /\ last' = Call("getObjectBound", i, 0, InvalidIndex, FALSE)
            /\ status' = "fatal"
    /\ UNCHANGED <<factoryVars, analyzerVars, moduleVars, ptsGraph, hist>>

NextObj ==
    \/ \E val \in CreatableValues : CreateValueNode(MaxNodesObj, val)
    \/ \E val \in CreatableValues, uo \in BOOLEAN :
          CreateObjectNode(MaxNodesObj, val, uo, FALSE)
    \/ \E base \in 4..(NumNodesOf(nodes) - 1), offset \in 0..MaxOffset, uo \in BOOLEAN :
          CreateObjectNodeAt(MaxNodesObj, base, offset, uo, FALSE)
    \/ \E n \in 3..NumNodesOf(nodes), offset \in (0 - 2)..MaxOffset :
          GetOffsetObjectNode(n, offset)
    \/ \E i \in 3..NumNodesOf(nodes) : GetObjectBound(i)

SpecObj == Init /\ [][NextObj]_vars

\* a memory object of N fields starts at k: N object nodes with the offsets
\* 0 .. N - 1, and the node after them, if any, is not its field N
IsObjectAt(k, N) ==
    /\ N >= 1
    /\ k + N <= NumNodesOf(nodes)
    /\ \A j \in 0..(N - 1) : nodes[k + j].type = "OBJ_NODE" /\ nodes[k + j].offset = j
    /\ (k + N < NumNodesOf(nodes)) =>
          ~(nodes[k + N].type = "OBJ_NODE" /\ nodes[k + N].offset = N)

\* the contiguity invariant: the nodes from a field's base up to the field
\* are the object nodes with offsets 0, 1, 2, ...
ContiguousObjects ==
    \A n \in DOMAIN nodes :
        (nodes[n].type = "OBJ_NODE" /\ nodes[n].offset > 0) =>
            /\ n - nodes[n].offset >= 0
            /\ \A j \in 0..nodes[n].offset :
                  /\ nodes[n - nodes[n].offset + j].type = "OBJ_NODE"
                  /\ nodes[n - nodes[n].offset + j].offset = j

(* C19: getOffsetObjectNode(base, k) returns base when base is a union      *)
(* object; otherwise it returns base + k, and only when base + k is an      *)
(* object node whose offset is base's offset plus k, and it is fatal when   *)
(* that does not hold.  Where the table is contiguous and base is an object *)
(* node, the node returned is a field of the memory object base is a field  *)
(* of.                                                                      *)
C19_OffsetObjectNode ==
    last.op = "getOffsetObjectNode" =>
        LET n == last.x
            k == last.y
            matches == /\ inTable(Factory, n + k)
                       /\ isObjectNode(Factory, n + k)
                       /\ nodes[n + k].offset = nodes[n].offset + k
        IN /\ NumNodesOf(nodes) = last.n0
           /\ ~inTable(Factory, n) => status = "fatal"
           /\ (status = "ok" /\ isUnionObject(Factory, n)) => last.ret = n
           /\ (status = "ok" /\ ~isUnionObject(Factory, n)) =>
                 (last.ret = n + k /\ matches)
           /\ (inTable(Factory, n) /\ ~isUnionObject(Factory, n) /\ ~matches) =>
                 status = "fatal"
           /\ (status = "ok" /\ ContiguousObjects /\ isObjectNode(Factory, n)) =>
                 \E b \in DOMAIN nodes : \E N \in 1..NumNodesOf(nodes) :
                     /\ IsObjectAt(b, N)
                     /\ n \in b..(b + N - 1)
                     /\ last.ret \in b..(b + N - 1)

\* field 1 of a two-field object was asked for from its first node and
\* returned; the node after it is the first node of another object
C19_Witness ==
    /\ status = "ok"
    /\ last.op = "getOffsetObjectNode"
    /\ last.x >= 5
    /\ last.y = 1
    /\ last.ret = last.x + 1
    /\ ~isUnionObject(Factory, last.x)
    /\ ContiguousObjects
    /\ IsObjectAt(last.x, 2)
    /\ last.x + 2 < NumNodesOf(nodes)
    /\ isObjectNode(Factory, last.x + 2)

(* C20: for a memory object of N contiguous field nodes that starts at k,   *)
(* getObjectSize(i) is N and getObjectBound(i) is k + N for each of its     *)
(* nodes i, whatever node - a value node, the first node of another object, *)
(* a field of another base - follows the object in the table.               *)
C20_ObjectSizeAndBound ==
    /\ \A k \in DOMAIN nodes : \A N \in 1..NumNodesOf(nodes) :
          IsObjectAt(k, N) =>
              \A i \in k..(k + N - 1) :
                  /\ getObjectSize(Factory, i) = N
                  /\ getObjectBound(Factory, i) = k + N
                  /\ (last.op = "getObjectBound" /\ last.x = i) =>
                        (status = "ok" /\ last.y = N /\ last.ret = k + N)

\* the bound of a two-field object was asked for from its second node; a
\* union object follows it in the table
C20_Witness ==
    /\ status = "ok"
    /\ last.op = "getObjectBound"
    /\ last.x >= 6
    /\ IsObjectAt(last.x - 1, 2)
    /\ last.y = 2
    /\ last.ret = last.x + 1
    /\ last.ret < NumNodesOf(nodes)
    /\ isObjectNode(Factory, last.ret)
    /\ isUnionObject(Factory, last.ret)


-----------------------------------------------------------------------------
(* Container relationships, read off the types                              *)

\* the structs a type embeds directly, each with the byte offset of an embedded
\* instance (every element of an array member is one instance)
Embeds(id) ==
    UNION { LET t == types[id].fields[i]
                e == stripArray(t)
            IN IF isStructTy(e)
               THEN { <<e.id, layout[id].offsets[i] + k * getTypeAllocSize(e)>> :
                        k \in 0..(arrayCount(t) - 1) }
               ELSE {}
            : i \in DOMAIN types[id].fields }

(* C21: whenever struct A embeds struct B at byte offset x and B embeds     *)
(* struct C at byte offset y, directly or as array elements, then once A is *)
(* flattened C's containers hold (A, x + y) and (B, y) and B's containers   *)
(* hold (A, x), in whatever order the types were first flattened.           *)
C21_ContainersTransitive ==
    \A A \in DOMAIN structInfoMap :
        (status = "ok" /\ structInfoMap[A].finalized /\ ~isUnionName(A)) =>
            \A eb \in Embeds(A) :
                /\ <<A, eb[2]>> \in structInfoMap[eb[1]].containers
                /\ ~isUnionName(eb[1]) =>
                      \A ec \in Embeds(eb[1]) :
                          /\ <<eb[1], ec[2]>> \in structInfoMap[ec[1]].containers
                          /\ <<A, eb[2] + ec[2]>> \in structInfoMap[ec[1]].containers

\* a three-level nesting behind other fields, the middle struct holding an array
C21_Witness ==
    /\ types[1] = StructDef(FALSE, <<I8, I32>>)
    /\ types[2] = StructDef(FALSE, <<I32, Arr(St(1), 2)>>)
    /\ types[3] = StructDef(FALSE, <<I32, St(2)>>)
    /\ 3 \in DOMAIN structInfoMap
    /\ structInfoMap[3].finalized
    /\ structInfoMap[1].containers = {<<2, 4>>, <<2, 12>>, <<3, 8>>, <<3, 16>>}
    /\ structInfoMap[2].containers = {<<3, 4>>}


-----------------------------------------------------------------------------
(* Struct analysis of modules whose structs mix byte-sized and word-sized   *)
(* members with nested structs that may be empty.                           *)

\* four struct types: 1 is built from scalars and arrays of scalars, may be
\* empty and may carry a union name, 2 embeds 1 among scalars, 3 embeds 2,
\* 4 is opaque
LayoutTables ==
    { <<StructDef(u1, f1), StructDef(FALSE, f2), StructDef(FALSE, f3),
        [union |-> FALSE, opaque |-> TRUE, fields |-> <<>>]>> :
        u1 \in BOOLEAN, f1 \in SeqsUpTo({I8, I32, Arr(I32, 2)}, MaxInner),
        f2 \in {f \in SeqsUpTo({I8, I32, St(1)}, MaxFields) : \E i \in DOMAIN f : f[i] = St(1)},
        f3 \in {f \in SeqsUpTo({I8, St(2)}, MaxInner) : \E i \in DOMAIN f : f[i] = St(2)} }

InitLayout ==
    /\ InitFactory
    /\ types \in LayoutTables
    /\ layout = DataLayoutOf(types)
    /\ structInfoMap = EmptyMap
    /\ structMap = {}
    /\ maxStructSize = 0
    /\ module = NoModule
    /\ ptsGraph = EmptyMap
    /\ last = NoCall
    /\ hist = NoHist

\* queries at every byte of the type and up to MaxBeyond bytes past its end
NextLayout ==
    \/ \E st \in DOMAIN types : RunStep(st)
    \/ \E st \in DOMAIN types :
         \E offset \in (0 - 1)..(getTypeAllocSize(St(st)) + MaxBeyond) :
            OffsetToFieldNum(st, offset)

SpecLayout == InitLayout /\ [][NextLayout]_vars

(* C22: for every finalized StructInfo and every i below getExpandedSize(), *)
(* getFieldOffset(i) is the byte offset of the i-th expanded leaf from the  *)
(* start of the outermost struct, and the offsets do not decrease in i;     *)
(* also when the struct embeds an empty struct or a sub-struct with more    *)
(* than one field at offset 0.                                              *)
C22_FieldOffsetOfLeaf ==
    \A st \in DOMAIN structInfoMap :
        (structInfoMap[st].finalized /\ IsPlainStruct(st)) =>
            \A i \in 0..(getExpandedSize(structInfoMap[st]) - 1) :
                /\ i < Len(structInfoMap[st].fieldOffset)
                /\ getFieldOffset(structInfoMap[st], i) = at(LeafOffsets(st, 0), i)
                /\ i > 0 => getFieldOffset(structInfoMap[st], i - 1)
                               <= getFieldOffset(structInfoMap[st], i)


(* C23: fieldRealSize holds exactly one entry per expanded field, so        *)
(* getFieldRealSize(i) is defined for every i below getExpandedSize(), and  *)
(* it is the real byte size of the field (of the whole array for an array   *)
(* field); also for structs with a union field or an array-of-struct field. *)
C23_RealSizePerField ==
    \A st \in DOMAIN structInfoMap :
        structInfoMap[st].finalized =>
            /\ Len(structInfoMap[st].fieldRealSize) = getExpandedSize(structInfoMap[st])
            /\ ~isUnionName(st) =>
                 \A j \in DOMAIN types[st].fields :
                    ~isStructTy(stripArray(types[st].fields[j])) =>
                        /\ at(structInfoMap[st].offsetMap, j - 1)
                              < Len(structInfoMap[st].fieldRealSize)
                        /\ getFieldRealSize(structInfoMap[st],
                                            at(structInfoMap[st].offsetMap, j - 1))
                              = getTypeAllocSize(types[st].fields[j])


-----------------------------------------------------------------------------
\* the defined globals and the allocas whose pointee, arrays stripped, is a
\* struct without a union name that has no members
EmptyStructAllocations ==
    {V \in DOMAIN Values :
        /\ \/ Values[V].k = "global" /\ ~Values[V].decl
           \/ Values[V].k = "inst" /\ Values[V].opcode = "alloca"
        /\ isStructTy(stripArray(Values[V].ty))
        /\ ~isUnionName(stripArray(Values[V].ty).id)
        /\ types[stripArray(Values[V].ty).id].fields = <<>>}

(* C24: an empty struct is flattened to the sentinel fieldSize[0] = 0 with  *)
(* expanded size 0; creating the memory object of a global or of a stack    *)
(* allocation whose pointee is such a struct yields the null object node 3, *)
(* creates no object node and registers no object-node mapping.             *)
C24_EmptyStructNullObject ==
    /\ \A st \in DOMAIN structInfoMap :
          (structInfoMap[st].finalized /\ types[st].fields = <<>>) =>
              /\ structInfoMap[st].fieldSize = <<0>>
              /\ getExpandedSize(structInfoMap[st]) = 0
    /\ \A V \in EmptyStructAllocations :
          LET r == processStruct(Factory, V, stripArray(Values[V].ty).id)
          IN /\ status = "ok" =>
                  /\ r.ret = NullObjectIndex
                  /\ r.f = Factory
             /\ (status = "ok" /\ hist.npop >= 1) =>
                  /\ V \in DOMAIN valueNodeMap
                  /\ V \notin DOMAIN objNodeMap
                  /\ \A n \in DOMAIN nodes :
                        nodes[n].type = "OBJ_NODE" => nodes[n].value # V

\* populated: an alloca of an empty struct next to a global of a struct type
C24_Witness ==
    /\ status = "ok" /\ hist.npop = 1
    /\ 6 \in EmptyStructAllocations
    /\ Values[1].ty = St(2)
    /\ 1 \in DOMAIN objNodeMap
    /\ 6 \in DOMAIN valueNodeMap
    /\ 6 \notin DOMAIN objNodeMap
    /\ structInfoMap[4].fieldSize = <<0>>


-----------------------------------------------------------------------------
(* Constant GEPs on constant GEPs.  The module: @g = global %struct.outer,  *)
(* an inner constant GEP on @g, a bitcast of it to i8*, and an outer        *)
(* constant GEP on the inner one or on the bitcast.  Indices and which of   *)
(* the leading indices are not ConstantInts vary.                           *)

\* inner GEPs: <<indices, pointee type of the result>>
InnerGeps ==
    { <<<<0, 0>>, I32>>, <<<<0, 1>>, St(1)>>, <<<<0, 1, 1>>, I32>>,
      <<<<0, 2>>, I32>>, <<<<1, 1>>, St(1)>> }

\* outer GEPs on a base of the given pointee: <<operand, source type, indices>>
OuterGeps(pointee) ==
    { <<2, pointee, <<0>>>>, <<2, pointee, <<1>>>>,
      <<3, I8, <<0>>>>, <<3, I8, <<2>>>>, <<3, I8, <<4>>>> }
    \cup (IF pointee = St(1) THEN {<<2, St(1), <<0, 1>>>>} ELSE {})

GepModules ==
    UNION { { [values |-> << GlobalVariable(St(2)),
                             [ConstGEP(St(2), 1, inner[1]) EXCEPT !.sym = s1],
                             Value("bitcast", TRUE, I8, 2, <<>>),
                             [ConstGEP(outer[2], outer[1], outer[3]) EXCEPT !.sym = s2] >>,
               globals |-> <<1>>, functions |-> <<>>] :
                s1 \in {{}, {1}}, outer \in OuterGeps(inner[2]), s2 \in {{}, {1}} }
            : inner \in InnerGeps }

InitGep ==
    /\ InitFactory
    /\ types = ModuleTypes
    /\ layout = DataLayoutOf(types)
    /\ LET sa == runAnalyzer([infos |-> EmptyMap, maxSize |-> 0, ok |-> TRUE], 1, Len(types))
       IN /\ structInfoMap = sa.infos
          /\ maxStructSize = sa.maxSize
    /\ structMap = DOMAIN types
    /\ module \in GepModules
    /\ ptsGraph = EmptyMap
    /\ last = NoCall
    /\ hist = NoHist

GetGEPOffset(v) ==
    /\ status = "ok"
    /\ Values[v].k = "gep"
    /\ last' = Call("getGEPOffset", v, 0, getGEPOffset(v), FALSE)
    /\ UNCHANGED <<factoryVars, status, analyzerVars, moduleVars, ptsGraph, hist>>

NextGep ==
    \/ PopulateNodeFactory
    \/ \E v \in DOMAIN Values : GetGEPOffset(v)
    \/ \E val \in DOMAIN Values : GetObjectNodeFor(val)

SpecGep == InitGep /\ [][NextGep]_vars

\* byte offset of the member path idx below type ty, from the types' layouts
RECURSIVE PathBytes(_, _)
PathBytes(ty, idx) ==
    IF idx = <<>> THEN 0
    ELSE StructLayoutIn(types, ty.id).offsets[Head(idx) + 1]
         + PathBytes(types[ty.id].fields[Head(idx) + 1], Tail(idx))

\* byte offset of a GEP's own indices, an index that is not a ConstantInt
\* counting as 0
OwnBytes(v) ==
    (IF 1 \in Values[v].sym THEN 0 ELSE Values[v].idx[1] * SizeIn(types, Values[v].ty))
    + PathBytes(Values[v].ty, Tail(Values[v].idx))

\* the operand of a GEP with the bitcasts around it removed
RECURSIVE CastStripped(_)
CastStripped(v) == IF Values[v].k = "bitcast" THEN CastStripped(Values[v].op) ELSE v

RECURSIVE CumulativeBytes(_)
CumulativeBytes(v) ==
    OwnBytes(v) + (IF Values[CastStripped(Values[v].op)].k = "gep"
                   THEN CumulativeBytes(CastStripped(Values[v].op))
                   ELSE 0)

(* C25: getGEPOffset of a constant GEP returns the byte offset of its own   *)
(* indices, an index that is not a constant counting as 0, plus, when its   *)
(* cast-stripped base is itself a constant GEP, the recursively computed    *)
(* offset of that base.                                                     *)
C25_GepOffsetCumulative ==
    last.op = "getGEPOffset" => last.ret = CumulativeBytes(last.x)

\* field 1 of the inner struct, reached through a bitcast of a GEP whose
\* leading index is not a constant
C25_Witness ==
    /\ last.op = "getGEPOffset" /\ last.x = 4
    /\ Values[4].op = 3 /\ Values[4].idx = <<4>> /\ Values[4].sym = {}
    /\ Values[2].idx = <<1, 1>> /\ Values[2].sym = {1}
    /\ last.ret = 8


(* C30: for a constant GEP whose base is itself a constant GEP on a global  *)
(* g of non-union struct type, getObjectNodeFor returns g's first object    *)
(* node plus the expanded field number of the cumulative byte offset of     *)
(* both GEPs, each counted once.                                            *)
C30_NestedGepObjectNode ==
    (/\ last.op = "getObjectNodeFor"
     /\ Values[last.x].k = "gep"
     /\ Values[Values[last.x].op].k = "gep"
     /\ GetUnderlyingObject(last.x) \in DOMAIN objNodeMap) =>
        /\ status = "ok"
        /\ last.ret = objNodeMap[GetUnderlyingObject(last.x)]
                      + offsetToFieldNum(structInfoMap,
                                         Values[GetUnderlyingObject(last.x)].ty,
                                         CumulativeBytes(last.x)).ret


-----------------------------------------------------------------------------
\* nesting depth of a type: the structs on the longest path down to a leaf
RECURSIVE NestingDepth(_)
RECURSIVE NestingDepthFields(_)
NestingDepth(t) ==
    LET e == stripArray(t)
    IN IF isStructTy(e) THEN 1 + NestingDepthFields(types[e.id].fields) ELSE 0
NestingDepthFields(fs) ==
    IF fs = <<>> THEN 0 ELSE Max(NestingDepth(Head(fs)), NestingDepthFields(Tail(fs)))

\* <<first byte, size>> of the leaves of a plain struct, in flattening order
RECURSIVE LeafExtents(_, _)
RECURSIVE LeafExtentsFields(_, _, _)
LeafExtents(id, base) == LeafExtentsFields(id, 1, base)
LeafExtentsFields(id, i, base) ==
    IF i > Len(types[id].fields) THEN <<>>
    ELSE LET t == types[id].fields[i]
             o == base + layout[id].offsets[i]
         IN (IF isStructTy(t) THEN LeafExtents(t.id, o) ELSE <<<<o, getTypeAllocSize(t)>>>>)
            \o LeafExtentsFields(id, i + 1, base)

\* byte b lies in a leaf of plain struct id but is not the leaf's first byte
InsideLeaf(id, b) ==
    \E k \in DOMAIN LeafExtents(id, 0) :
        LET e == LeafExtents(id, 0)[k] IN e[1] < b /\ b < e[1] + e[2]

(* C26: offsetToFieldNum terminates for every pointee type of finite       *)
(* nesting depth and every byte offset.  It returns 0 at once for a         *)
(* negative offset, a top-level union or an opaque pointee; otherwise every *)
(* iteration descends one nesting level, brings the remaining offset to 0,  *)
(* or leaves with a warning when the offset falls in the middle of a field  *)
(* that is not an aggregate, and never with a fatal failure.                *)
C26_OffsetToFieldNumTerminates ==
    last.op = "offsetToFieldNum" =>
        LET r == offsetToFieldNum(structInfoMap, St(last.x), last.y)
            size == getTypeAllocSize(St(last.x))
        IN /\ status = "ok"
           /\ r.iter <= NestingDepth(St(last.x)) + 1
           /\ (last.y < 0 \/ isUnionName(last.x) \/ isOpaque(last.x)) =>
                 (last.ret = 0 /\ r.iter = 0 /\ ~last.flag)
           /\ (IsPlainStruct(last.x) /\ last.y >= 0 /\ size > 0) =>
                 (last.flag <=> InsideLeaf(last.x, last.y % size))

\* a byte in the middle of an i32 two levels down: three descents, then the warning
C26_Witness ==
    /\ last.op = "offsetToFieldNum" /\ last.x = 3 /\ last.flag /\ status = "ok"
    /\ types[1] = StructDef(FALSE, <<I8, I32>>)
    /\ types[2] = StructDef(FALSE, <<I8, St(1)>>)
    /\ types[3] = StructDef(FALSE, <<I8, St(2)>>)
    /\ last.y = 13 /\ last.ret = 3
    /\ offsetToFieldNum(structInfoMap, St(3), last.y).iter = 4


-----------------------------------------------------------------------------
(* C27: getMergeTarget terminates after any sequence of mergeNode calls:    *)
(* the mergeTarget links always form a forest whose only cycles are the     *)
(* self-loops of the representatives, also after mergeNode(a, b) followed   *)
(* by mergeNode(b, a).                                                      *)
C27_MergeTargetsForest ==
    /\ status # "hang"
    /\ \A n \in DOMAIN nodes : getMergeTargetConst(nodes, n) # InvalidIndex

(* C28: merging never splits an equivalence class: two nodes that have the  *)
(* same representative before a mergeNode call have the same representative *)
(* after it, as a and b after mergeNode(a, b) followed by mergeNode(c, b).  *)
C28_MergeNeverSplits ==
    [][ (last'.op = "mergeNode" /\ status' = "ok") =>
           \A i \in DOMAIN nodes : \A j \in DOMAIN nodes :
              (/\ getMergeTargetConst(nodes, i) # InvalidIndex
               /\ getMergeTargetConst(nodes, i) = getMergeTargetConst(nodes, j)) =>
                  getMergeTargetConst(nodes', i) = getMergeTargetConst(nodes', j)
      ]_vars


(* C29: lookups are kind-consistent: for every value, non-pointer constants *)
(* included, getValueNodeFor returns InvalidIndex or the index of a value   *)
(* node and getObjectNodeFor returns InvalidIndex or the index of an object *)
(* node.                                                                    *)
C29_LookupsKindConsistent ==
    /\ (last.op = "getValueNodeFor" /\ status = "ok") =>
          \/ last.ret = InvalidIndex
          \/ last.ret \in DOMAIN nodes /\ nodes[last.ret].type = "VALUE_NODE"
    /\ (last.op = "getObjectNodeFor" /\ status = "ok") =>
          \/ last.ret = InvalidIndex
          \/ last.ret \in DOMAIN nodes /\ nodes[last.ret].type = "OBJ_NODE"

=============================================================================
